---- MODULE Spec2Model ----
(***************************************************************************)
(* Model of the stream consumption engine of factiva-news-python:          *)
(* factiva/news/stream/Listener.py.  One Listener instance, the caller     *)
(* that invokes listen / listen_async on it, the messaging channel         *)
(* (Google Pub/Sub) as the environment, and the quota watchdog threads     *)
(* started by check_exceeded_thread.                                       *)
(***************************************************************************)
EXTENDS Integers, Naturals, Sequences, FiniteSets, TLC

\* ------------------------------------------------------------------ bounds
\* largest maximum_messages a caller passes
MaxM == 2
\* largest batch_size a caller passes
MaxBatch == 2
\* pulls one listen call may issue in the model
MaxPulls == 2
\* transient transport errors the channel raises during one listen call
MaxErrors == 1
\* listen / listen_async calls made on the Listener
MaxCalls == 2
\* messages the channel dispatches in push mode
MaxPush == 1
\* stream ids the platform assigns
MaxStreamIds == 2
\* subscription ids the platform assigns
MaxSubIds == 2
\* characters of a job id in a response
MaxIdLen == 7
\* characters of a snapshot id, an update type, a timestamp
MaxPartLen == 2

\* ------------------------------------------------------- program constants
\* Python's None (an omitted maximum_messages, an unset limit_msg)
None == -1
\* time.sleep(10) in the except branch of listen
RetryDelay == 10
\* the status code _check_exceeded expects from both requests
HTTP_OK == 200
\* status_code == 201 of the creation requests
HTTP_CREATED == 201
\* the 404 of Stream.delete
HTTP_NOT_FOUND == 404

\* status codes the platform may answer with: the expected one and another
StatusCodes == {HTTP_OK, 500}
\* values of max_allowed_extracts the account endpoint may report
AllowedExtracts == {0, 1}
\* job_status values of the stream: const.DOC_COUNT_EXCEEDED and any other
JobStatuses == {"DOC_COUNT_EXCEEDED", "JOB_STATE_RUNNING"}
\* the callbacks a caller passes: the module's default or one of its own
Callbacks == {"default_callback", "callback"}
\* exceptions of the channel: GoogleAPICallError and its subclass NotFound
TransportErrors == {"GoogleAPICallError", "NotFound"}

VARIABLES
    is_consuming,       \* Listener.is_consuming
    check_threads,      \* the watchdog threads started so far, by call number
    pc,                 \* where the caller is: idle, loop, callback, ack, except, returned, raised
    mode,               \* the entry point of the latest call: none, listen, listen_async
    calls,              \* calls made on the Listener
    callback,           \* the callback argument of the call
    maximum_messages,   \* the maximum_messages argument
    batch_size,         \* the local batch_size of listen (shrunk in the loop)
    pubsub_request,     \* the request dict built before the loop
    messages_count,     \* the local messages_count of listen
    received_messages,  \* the messages of the pulled batch not yet iterated past
    callback_result,    \* the result of the latest callback
    error,              \* the exception being handled, or "none"
    outcome,            \* how the latest call ended
    clients,            \* get_client_subscription calls of the latest call
    credentials,        \* fetch_credentials calls of the latest call
    pulls,              \* pull requests of the latest call
    last_pull,          \* max_messages asked by the latest pull, and messages_count then
    slept,              \* time units slept by the latest call
    errors,             \* transient errors handled by the latest call
    delivered,          \* messages the channel delivered to the latest call
    called_back,        \* messages whose callback returned
    failed_message,     \* the message whose callback raised, or 0
    acknowledged,       \* messages acknowledged
    last_ack_ids,       \* ack_ids of the latest acknowledge request
    subscriptions,      \* push callbacks registered with the channel
    registered,         \* the callbacks registered with the channel in push mode
    push_received,      \* messages dispatched in push mode
    push_called,        \* push-mode invocations of a registered callback
    push_raised,        \* push-mode invocations that raised
    push_acked          \* push-mode messages acknowledged

pumpVars == <<pc, mode, calls, callback, maximum_messages, batch_size, pubsub_request,
              messages_count, received_messages, callback_result, error, outcome,
              clients, credentials, pulls, last_pull, slept, errors, delivered,
              called_back, failed_message, acknowledged, last_ack_ids, subscriptions>>
VARIABLES
    streams,            \* the Stream objects: stream_id, snapshot_id, query
    subscriptions_dict, \* Stream.subscriptions, the dict declared on the class
    next_stream,        \* the next stream id the platform assigns
    next_sub,           \* the next subscription id the platform assigns
    last_op,            \* the latest Stream operation: its arguments, request and outcome
    subscription,       \* a Subscription object: id, stream_id, listener
    job_kind,           \* the class of the job whose get_job_id ran
    source_id,          \* source['data']['id'] of the response given to get_job_id
    job_id,             \* what get_job_id returned
    job,                \* a job record: its class, job_id, link, job_state and data
    job_pc,             \* where the caller of the job is: idle, waiting, downloading
    job_op,             \* the latest operation on the job: its request and outcome
    retrieval,          \* the download of the job's files: files left, files written
    snapshot_obj        \* a Snapshot: last_update_job and the job_id of last_extraction_job

streamVars == <<streams, subscriptions_dict, next_stream, next_sub, last_op, subscription>>
recordVars == <<job, job_pc, job_op, retrieval, snapshot_obj>>
jobVars == <<job_kind, source_id, job_id, recordVars>>
listenerVars == <<is_consuming, check_threads, pc, mode, calls, callback, maximum_messages,
                  batch_size, pubsub_request, messages_count, received_messages,
                  callback_result, error, outcome, clients, credentials, pulls, last_pull,
                  slept, errors, delivered, called_back, failed_message, acknowledged,
                  last_ack_ids, subscriptions, registered, push_received, push_called,
                  push_raised, push_acked>>
pushVars == <<registered, push_received, push_called, push_raised, push_acked>>
vars == <<is_consuming, check_threads, pumpVars, pushVars, streamVars, jobVars>>

\* ------------------------------------------------------------ pure helpers
Min(a, b) == IF a <= b THEN a ELSE b

\* Python truthiness of an optional integer: `not x`
Falsy(x) == x = None \/ x = 0

\* while maximum_messages is None or messages_count < maximum_messages
LoopContinues(M, count) == M = None \/ count < M

\* batch_size = min(batch_size, maximum_messages - messages_count)
ShrunkBatch(B, M, count) == IF M # None THEN Min(B, M - count) ELSE B

\* pubsub_request = {..., "max_messages": batch_size, ...}, built before the loop
BuildRequest(B) == [max_messages |-> B, return_immediately |-> TRUE]

\* faulty variant of AckIds: one acknowledge request for the whole pulled batch
AckIdsWholeBatch(message, batch) == {batch[i] : i \in 1..Len(batch)}

\* ack_ids=[message.ack_id]
AckIds(message, batch) == {message}

\* faulty variant of BatchExhausted: the loop over the batch also stops at the cap
BatchExhaustedAtCap(rest, count, M) == rest = <<>> \/ count >= M

\* for message in results.received_messages: the loop over the batch ends
\* when the batch is exhausted
BatchExhausted(rest, count, M) == rest = <<>>

\* faulty variant of IsNotFound: the handler does not tell NotFound apart
IsNotFoundNever(e) == FALSE

\* isinstance(e, NotFound)
IsNotFound(e) == e = "NotFound"

\* results a callback can return, as truthiness; default_callback returns None
CallbackReturns(cb) == IF cb = "default_callback" THEN {FALSE} ELSE BOOLEAN

\* whether the callback can raise; default_callback only prints
CallbackMayRaise(cb) == cb # "default_callback"

\* if not limit_msg: 'Job finished' else the exceeded notice
FinalReport(limit_msg) == IF Falsy(limit_msg) THEN "Job finished" ELSE "exceeded notice"

\* a thread: where it is, the entry point that started it, its local limit_msg,
\* the status codes of the requests of its latest iteration (0: not issued),
\* and what it printed at its end
NoThread == [pc |-> "none", caller |-> "none", limit_msg |-> None,
             status_code |-> 0, limit_status_code |-> 0, report |-> "none"]

\* Thread(target=self._check_exceeded).start(): limit_msg = None
NewThread(m) == [NoThread EXCEPT !.pc = "running", !.caller = m]

\* ------------------------------------------------- Stream and Subscription
\* the Stream objects of the program
StreamObjects == {"s1", "s2"}

\* the snapshot_id argument of Stream(): None by default
SnapshotIds == {None, 1}

\* the query argument of Stream(): '' by default
Queries == {"", "where"}

\* the status codes the platform answers with
StreamStatusCodes == {HTTP_OK, HTTP_CREATED, HTTP_NOT_FOUND, 500}

\* not self.query, on the BulkNewsQuery built from the query argument: a
\* query built from no where clause counts as not set
QueryUndefined(q) == q = ""

\* Stream.__init__ without a stream_id
NewStream(snapshot, q) == [stream_id |-> None, snapshot_id |-> snapshot, query |-> q]

\* dict: d[k] = v
DictSet(d, k, v) == [x \in (DOMAIN d) \cup {k} |-> IF x = k THEN v ELSE d[x]]

\* faulty variant of DictDel: every entry is removed
DictDelAll(d, k) == [x \in {} |-> None]

\* dict: del d[k]
DictDel(d, k) == [x \in (DOMAIN d) \ {k} |-> d[x]]

\* dict()
EmptyDict == [x \in {} |-> None]

\* faulty variant of BoundSubscription: no Listener is built
UnboundSubscription(id, stream_id) == [id |-> id, stream_id |-> stream_id, listener |-> None]

\* a Subscription after create_listener: its id, its stream_id, and the
\* subscription_id its Listener was built with
BoundSubscription(id, stream_id) == [id |-> id, stream_id |-> stream_id, listener |-> id]

\* faulty variant of CreateDefaultSubscription: only the first reported
\* subscription is inserted
CreateDefaultSubscriptionFirstOnly(d, stream_id, reported) ==
    IF reported = <<>> THEN [dict |-> d, error |-> "none"]
    ELSE [dict |-> [x \in (DOMAIN d) \cup {Head(reported)} |->
                        IF x = Head(reported)
                        THEN [id |-> x, stream_id |-> stream_id, listener |-> x] ELSE d[x]],
          error |-> "none"]

\* faulty variant of CreateDefaultSubscription: an entry is inserted for a
\* reported subscription even when it has no id
RECURSIVE CreateDefaultSubscriptionUnchecked(_, _, _)
CreateDefaultSubscriptionUnchecked(d, stream_id, reported) ==
    IF reported = <<>> THEN [dict |-> d, error |-> "none"]
    ELSE IF Falsy(stream_id) THEN [dict |-> d, error |-> "UNDEFINED_STREAM_ID_ERROR"]
    ELSE CreateDefaultSubscriptionUnchecked(
            [x \in (DOMAIN d) \cup {Head(reported)} |->
                IF x = Head(reported)
                THEN [id |-> x, stream_id |-> stream_id, listener |-> None] ELSE d[x]],
            stream_id, Tail(reported))

\* create_default_subscription(response): for each reported subscription, in
\* order, Subscription(id, stream_id) (raises without a stream_id),
\* create_listener (Listener raises without a subscription id), then the
\* insertion; an exception leaves the entries inserted before it
RECURSIVE CreateDefaultSubscription(_, _, _)
CreateDefaultSubscription(d, stream_id, reported) ==
    IF reported = <<>> THEN [dict |-> d, error |-> "none"]
    ELSE IF Falsy(stream_id) THEN [dict |-> d, error |-> "UNDEFINED_STREAM_ID_ERROR"]
    ELSE IF Falsy(Head(reported)) THEN [dict |-> d, error |-> "UNDEFINED_SUBSCRIPTION_ERROR"]
    ELSE CreateDefaultSubscription(
            DictSet(d, Head(reported), BoundSubscription(Head(reported), stream_id)),
            stream_id, Tail(reported))

\* the subscriptions a response reports: one or two ids the platform assigns
\* next, or an entry without an id
ReportedSubscriptions ==
    {<<next_sub>>, <<next_sub, next_sub + 1>>, <<0>>, <<next_sub, 0>>}

\* the highest id of a reported list
RECURSIVE MaxOf(_)
MaxOf(seq) == IF seq = <<>> THEN 0
              ELSE IF Head(seq) > MaxOf(Tail(seq)) THEN Head(seq) ELSE MaxOf(Tail(seq))

\* no Stream operation has run
NoOp == [op |-> "none", stream |-> "none", id |-> None, status |-> None,
         requests |-> 0, endpoint |-> "none", reported |-> <<>>, outcome |-> "none"]

\* no Subscription object of its own: the class attributes id = None,
\* stream_id = None, listener = None
NoSubscription == [id |-> None, stream_id |-> None, listener |-> None]

\* the Stream objects as constructed: the first over every snapshot_id and
\* query argument, the others with the default arguments
StreamsConstructed ==
    /\ streams \in [StreamObjects -> {NewStream(snapshot, q) : snapshot \in SnapshotIds, q \in Queries}]
    /\ \A s \in StreamObjects \ {"s1"} : streams[s] = NewStream(None, "")
    /\ subscriptions_dict = EmptyDict
    /\ next_stream = 1
    /\ next_sub = 1
    /\ last_op = NoOp
    /\ subscription = NoSubscription

\* the Stream objects with the default arguments
NoStream ==
    /\ streams = [s \in StreamObjects |-> NewStream(None, "")]
    /\ subscriptions_dict = EmptyDict
    /\ next_stream = 1
    /\ next_sub = 1
    /\ last_op = NoOp
    /\ subscription = NoSubscription

\* ------------------------------------------------------------- job ids
\* the characters of an id: the dash and two others
Chars == {"-", "a", "b"}

\* the ids a response can carry
SourceIds == UNION {[1..n -> Chars] : n \in 0..MaxIdLen}

\* the job classes
JobKinds == {"ExplainJob", "AnalyticsJob", "ExtractionJob", "UpdateJob"}

\* str.split('-')
RECURSIVE Split(_)
Split(str) ==
    IF \A i \in 1..Len(str) : str[i] # "-" THEN <<str>>
    ELSE LET i == CHOOSE i \in 1..Len(str) :
                        str[i] = "-" /\ \A j \in 1..(i - 1) : str[j] # "-"
         IN <<SubSeq(str, 1, i - 1)>> \o Split(SubSeq(str, i + 1, Len(str)))

\* '-'.join(parts)
RECURSIVE Join(_)
Join(parts) ==
    IF parts = <<>> THEN <<>>
    ELSE IF Len(parts) = 1 THEN parts[1]
    ELSE parts[1] \o <<"-">> \o Join(Tail(parts))

\* parts[-n:]
LastParts(parts, n) ==
    SubSeq(parts, IF Len(parts) > n THEN Len(parts) - n + 1 ELSE 1, Len(parts))

\* ExplainJob.get_job_id
ExplainGetJobId(id) == id

\* AnalyticsJob.get_job_id
AnalyticsGetJobId(id) == id

\* ExtractionJob.get_job_id: split('-')[-1]
ExtractionGetJobId(id) == Split(id)[Len(Split(id))]

\* faulty variant of UpdateGetJobId: the last two segments
UpdateGetJobIdLastTwo(id) == Join(LastParts(Split(id), 2))

\* UpdateJob.get_job_id: '-'.join(split('-')[-3:])
UpdateGetJobId(id) == Join(LastParts(Split(id), 3))

\* get_job_id of a job of the given class
GetJobIdOf(kind, id) ==
    CASE kind = "ExplainJob" -> ExplainGetJobId(id)
      [] kind = "AnalyticsJob" -> AnalyticsGetJobId(id)
      [] kind = "ExtractionJob" -> ExtractionGetJobId(id)
      [] kind = "UpdateJob" -> UpdateGetJobId(id)

\* ------------------------------------------------------------ job records
\* the status codes the platform answers a job request with
JobStatusCodes == {HTTP_OK, HTTP_CREATED, 500}

\* the ids a submission response carries
ResponseIds == {<<"a", "-", "b", "-", "a", "-", "b">>, <<"a", "-", "b", "-", "a", "-", "a">>}

\* the update_type argument of UpdateJob: None or a type
UpdateTypes == {<<>>, <<"a">>}

\* the snapshot_id argument of ExtractionJob and UpdateJob: None or an id
SnapshotIdArguments == {<<>>, <<"b">>}

\* the update_id argument of UpdateJob: None, snapshot-type-datetime, or a
\* string without a dash
UpdateIds == {<<>>, <<"b", "-", "a", "-", "b">>, <<"b">>}

\* the file lists a finished job reports
FileLists == {<<"f1">>, <<"f1", "f2">>}

\* the states a status response reports
ReportedStates == {"Pending", "Running", "Done", "Failed"}

\* the terminal states
TerminalStates == {"Done", "Failed"}

\* the body of a status response: the state and, for a finished job, its data
StatusResponses ==
    {[state |-> st, counts |-> 0, results |-> <<>>, files |-> <<>>, format |-> ""] :
        st \in ReportedStates \ {"Done"}}
    \cup {[state |-> "Done", counts |-> 1, results |-> <<1>>, files |-> fl, format |-> "csv"] :
        fl \in FileLists}

\* the strings without a dash: snapshot ids, update types, timestamps, keys
DashFree == UNION {[1..n -> Chars \ {"-"}] : n \in 0..MaxPartLen}

\* 'dj-synhub-extraction-', by its dash-delimited segments
ExtractionPrefix == <<"dj", "-", "synhub", "-", "extraction", "-">>

\* the id the platform gives an update job:
\* dj-synhub-extraction-{USER-KEY}-{SNAPSHOT_ID}-{UPDATE_TYPE}-{DATETIME}
ResponseIdOf(key, snapshot_id, update_type, datetime) ==
    ExtractionPrefix \o key \o <<"-">> \o snapshot_id \o <<"-">> \o update_type
        \o <<"-">> \o datetime

\* faulty variant of LinkWithKey: the key is left out of the link
LinkWithoutKey(key, id) == <<"/">> \o ExtractionPrefix \o id

\* f'{API_HOST}{API_SNAPSHOTS_BASEPATH}/dj-synhub-extraction-{api_key}-{id}'
LinkWithKey(key, id) == <<"/">> \o ExtractionPrefix \o key \o <<"-">> \o id

\* self.api_user.api_key
ApiKey == <<"k">>

\* the link of a job: derived from its id and the key of its user
LinkFor(id) == LinkWithKey(ApiKey, id)

\* BulkNewsJob.__init__: no job_id, no link, status Created; with the data
\* attributes each class sets in its __init__
NewJobRecord(kind) ==
    [kind |-> kind, job_id |-> <<>>, link |-> <<>>, job_state |-> "Created",
     document_volume |-> 0, data |-> <<>>, files |-> <<>>, file_format |-> "",
     update_type |-> <<>>, snapshot_id |-> <<>>]

\* no job object
NoJobRecord == NewJobRecord("none")

\* ExtractionJob.__init__(snapshot_id, api_user): with a snapshot_id the
\* job_id and the link are set from it
NewExtractionJobRecord(kind, snapshot_id) ==
    IF snapshot_id # <<>>
    THEN [NewJobRecord(kind) EXCEPT !.job_id = snapshot_id, !.link = LinkFor(snapshot_id)]
    ELSE NewJobRecord(kind)

\* set_job_data(source) of each class
SetJobData(j, source) ==
    CASE j.kind = "ExplainJob" -> [j EXCEPT !.document_volume = source.counts]
      [] j.kind = "AnalyticsJob" -> [j EXCEPT !.data = source.results]
      [] OTHER -> [j EXCEPT !.file_format = source.format, !.files = source.files]

\* the data of a job is populated
Populated(j) ==
    j.document_volume # 0 \/ j.data # <<>> \/ j.files # <<>> \/ j.file_format # ""

\* faulty variant of Submitted: the link is not derived
SubmittedWithoutLink(j, id) ==
    [j EXCEPT !.job_id = GetJobIdOf(j.kind, id), !.job_state = "Submitted"]

\* submit_job on an answer with the creation status: the job_id by
\* get_job_id of the class, the link, status Submitted
Submitted(j, id) ==
    [j EXCEPT !.job_id = GetJobIdOf(j.kind, id),
              !.link = LinkFor(GetJobIdOf(j.kind, id)),
              !.job_state = "Submitted"]

\* get_job_results on a 200: the status of the response, and set_job_data
\* when it is Done
Polled(j, source) ==
    IF source.state = "Done"
    THEN SetJobData([j EXCEPT !.job_state = source.state], source)
    ELSE [j EXCEPT !.job_state = source.state]

\* no operation has run on the job
NoJobOp == [op |-> "none", requests |-> 0, outcome |-> "none", response_id |-> <<>>,
            arguments |-> <<>>, status |-> None]

\* what an operation on the job reports
JobOp(op, requests, result) == [NoJobOp EXCEPT !.op = op, !.requests = requests, !.outcome = result]

\* no download has run
NoRetrieval == [left |-> <<>>, written |-> <<>>, requests |-> 0,
                outcome |-> "none", job_state |-> "none"]

\* Snapshot(): last_update_job = None, last_extraction_job = None
NoSnapshot == [last_update_job |-> "None", last_extraction_job |-> "None",
               extraction_job_id |-> <<>>]

\* no get_job_id has run, no job object, no Snapshot operation
NoJob ==
    /\ job_kind = "none"
    /\ source_id = <<>>
    /\ job_id = <<>>
    /\ job = NoJobRecord
    /\ job_pc = "idle"
    /\ job_op = NoJobOp
    /\ retrieval = NoRetrieval
    /\ snapshot_obj = NoSnapshot

\* --------------------------------------------------------------------- Init
\* Listener.__init__: is_consuming = True, no thread, no call made yet
InitListener ==
    /\ is_consuming = TRUE
    /\ check_threads = [t \in 1..MaxCalls |-> NoThread]
    /\ pc = "idle"
    /\ mode = "none"
    /\ calls = 0
    /\ callback = "default_callback"
    /\ maximum_messages = None
    /\ batch_size = 0
    /\ pubsub_request = BuildRequest(0)
    /\ messages_count = 0
    /\ received_messages = <<>>
    /\ callback_result = FALSE
    /\ error = "none"
    /\ outcome = "none"
    /\ clients = 0
    /\ credentials = 0
    /\ pulls = 0
    /\ last_pull = [max_messages |-> 0, processed |-> 0]
    /\ slept = 0
    /\ errors = 0
    /\ delivered = {}
    /\ called_back = {}
    /\ failed_message = 0
    /\ acknowledged = {}
    /\ last_ack_ids = {}
    /\ subscriptions = 0
    /\ registered = {}
    /\ push_received = 0
    /\ push_called = 0
    /\ push_raised = 0
    /\ push_acked = 0

\* a fresh Listener, Stream objects with the default arguments, no job
Init == InitListener /\ NoStream /\ NoJob

\* a fresh Listener, Stream objects over every argument, no job
InitStream == InitListener /\ StreamsConstructed /\ NoJob

\* the caller is between calls
Callable == pc \in {"idle", "returned", "raised"} /\ calls < MaxCalls

\* the per-call record of channel activity starts empty
FreshCall ==
    /\ messages_count' = 0
    /\ received_messages' = <<>>
    /\ callback_result' = FALSE
    /\ error' = "none"
    /\ pulls' = 0
    /\ last_pull' = [max_messages |-> 0, processed |-> 0]
    /\ slept' = 0
    /\ errors' = 0
    /\ delivered' = {}
    /\ called_back' = {}
    /\ failed_message' = 0
    /\ acknowledged' = {}
    /\ last_ack_ids' = {}

\* ------------------------------------------------------- listen (pull mode)
\* faulty variant of ListenUndefined: the channel handle is acquired before the check
ListenUndefinedLate(cb, M, B) ==
    /\ Callable
    /\ Falsy(M)
    /\ calls' = calls + 1
    /\ mode' = "listen"
    /\ callback' = cb
    /\ maximum_messages' = M
    /\ clients' = clients + 1
    /\ pc' = "raised"
    /\ outcome' = "ValueError"
    /\ UNCHANGED <<is_consuming, check_threads, batch_size, pubsub_request, messages_count,
                   received_messages, callback_result, error, credentials, pulls,
                   last_pull, slept, errors, delivered, called_back, failed_message,
                   acknowledged, last_ack_ids, subscriptions, pushVars>>

\* listen(callback, maximum_messages, batch_size) with a falsy maximum_messages:
\* raise ValueError('undefined maximum messages to proceed')
ListenUndefined(cb, M, B) ==
    /\ Callable
    /\ Falsy(M)
    /\ calls' = calls + 1
    /\ mode' = "listen"
    /\ callback' = cb
    /\ maximum_messages' = M
    /\ pc' = "raised"
    /\ outcome' = "ValueError"
    /\ UNCHANGED <<is_consuming, check_threads, batch_size, pubsub_request, messages_count,
                   received_messages, callback_result, error, clients, credentials, pulls,
                   last_pull, slept, errors, delivered, called_back, failed_message,
                   acknowledged, last_ack_ids, subscriptions, pushVars>>

\* listen up to the loop: get_client_subscription, check_exceeded_thread,
\* fetch_credentials, messages_count = 0, pubsub_request built
ListenStart(cb, M, B) ==
    /\ Callable
    /\ ~Falsy(M)
    /\ calls' = calls + 1
    /\ mode' = "listen"
    /\ callback' = cb
    /\ maximum_messages' = M
    /\ clients' = 1
    /\ check_threads' = [check_threads EXCEPT ![calls + 1] = NewThread("listen")]
    /\ credentials' = 1
    /\ batch_size' = B
    /\ pubsub_request' = BuildRequest(B)
    /\ FreshCall
    /\ pc' = "loop"
    /\ outcome' = "none"
    /\ UNCHANGED <<is_consuming, subscriptions, pushVars>>

\* the loop condition fails: self.is_consuming = False, listen returns
ListenFinish ==
    /\ pc = "loop"
    /\ ~LoopContinues(maximum_messages, messages_count)
    /\ is_consuming' = FALSE
    /\ pc' = "returned"
    /\ outcome' = "maximum reached"
    /\ UNCHANGED <<check_threads, mode, calls, callback, maximum_messages, batch_size,
                   pubsub_request, messages_count, received_messages, callback_result,
                   error, clients, credentials, pulls, last_pull, slept, errors, delivered,
                   called_back, failed_message, acknowledged, last_ack_ids, subscriptions,
                   pushVars>>

\* what every pull does before the channel answers
PullIssued ==
    /\ pc = "loop"
    /\ LoopContinues(maximum_messages, messages_count)
    /\ pulls < MaxPulls
    /\ batch_size' = ShrunkBatch(batch_size, maximum_messages, messages_count)
    /\ pulls' = pulls + 1
    /\ last_pull' = [max_messages |-> pubsub_request.max_messages,
                     processed |-> messages_count]

\* pubsub_client.pull(request=pubsub_request) answers with n messages
Pull(n) ==
    /\ PullIssued
    /\ n \in 0..pubsub_request.max_messages
    /\ LET first == Cardinality(delivered) + 1
           batch == [i \in 1..n |-> first + i - 1]
       IN /\ delivered' = delivered \cup {batch[i] : i \in 1..n}
          /\ received_messages' = batch
          /\ pc' = IF n = 0 THEN "loop" ELSE "callback"
    /\ UNCHANGED <<is_consuming, check_threads, mode, calls, callback, maximum_messages,
                   pubsub_request, messages_count, callback_result, error, outcome, clients,
                   credentials, slept, errors, called_back, failed_message, acknowledged,
                   last_ack_ids, subscriptions, pushVars>>

\* pubsub_client.pull raises e
PullRaises(e) ==
    /\ PullIssued
    /\ e \in TransportErrors
    /\ IsNotFound(e) \/ errors < MaxErrors
    /\ error' = e
    /\ pc' = "except"
    /\ UNCHANGED <<is_consuming, check_threads, mode, calls, callback, maximum_messages,
                   pubsub_request, messages_count, received_messages, callback_result,
                   outcome, clients, credentials, slept, errors, delivered, called_back,
                   failed_message, acknowledged, last_ack_ids, subscriptions, pushVars>>

\* callback_result = callback(news_message, self.subscription_id)
CallbackReturn(r) ==
    /\ pc = "callback"
    /\ r \in CallbackReturns(callback)
    /\ called_back' = called_back \cup {Head(received_messages)}
    /\ callback_result' = r
    /\ pc' = "ack"
    /\ UNCHANGED <<is_consuming, check_threads, mode, calls, callback, maximum_messages,
                   batch_size, pubsub_request, messages_count, received_messages, error,
                   outcome, clients, credentials, pulls, last_pull, slept, errors, delivered,
                   failed_message, acknowledged, last_ack_ids, subscriptions, pushVars>>

\* the callback raises an exception that is no GoogleAPICallError: it leaves listen
CallbackRaise ==
    /\ pc = "callback"
    /\ CallbackMayRaise(callback)
    /\ failed_message' = Head(received_messages)
    /\ pc' = "raised"
    /\ outcome' = "callback raised"
    /\ UNCHANGED <<is_consuming, check_threads, mode, calls, callback, maximum_messages,
                   batch_size, pubsub_request, messages_count, received_messages,
                   callback_result, error, clients, credentials, pulls, last_pull, slept,
                   errors, delivered, called_back, acknowledged, last_ack_ids, subscriptions,
                   pushVars>>

\* faulty variant of Acknowledge: the loop moves to the next message without
\* the acknowledge request
AcknowledgeSkipped ==
    /\ pc = "ack"
    /\ LET rest == Tail(received_messages)
       IN /\ messages_count' = messages_count + 1
          /\ received_messages' = rest
          /\ IF ~callback_result
             THEN pc' = "returned" /\ outcome' = "callback stop"
             ELSE /\ pc' = IF BatchExhausted(rest, messages_count + 1, maximum_messages)
                           THEN "loop" ELSE "callback"
                  /\ outcome' = outcome
    /\ UNCHANGED <<is_consuming, check_threads, mode, calls, callback, maximum_messages,
                   batch_size, pubsub_request, callback_result, error, clients, credentials,
                   pulls, last_pull, slept, errors, delivered, called_back, failed_message,
                   acknowledged, last_ack_ids, subscriptions, pushVars>>

\* pubsub_client.acknowledge(...) succeeds; messages_count += 1;
\* if not callback_result: return; else the next message of the batch
Acknowledge ==
    /\ pc = "ack"
    /\ LET ids == AckIds(Head(received_messages), received_messages)
           rest == Tail(received_messages)
       IN /\ acknowledged' = acknowledged \cup ids
          /\ last_ack_ids' = ids
          /\ messages_count' = messages_count + 1
          /\ received_messages' = rest
          /\ IF ~callback_result
             THEN pc' = "returned" /\ outcome' = "callback stop"
             ELSE /\ pc' = IF BatchExhausted(rest, messages_count + 1, maximum_messages)
                           THEN "loop" ELSE "callback"
                  /\ outcome' = outcome
    /\ UNCHANGED <<is_consuming, check_threads, mode, calls, callback, maximum_messages,
                   batch_size, pubsub_request, callback_result, error, clients, credentials,
                   pulls, last_pull, slept, errors, delivered, called_back, failed_message,
                   subscriptions, pushVars>>

\* pubsub_client.acknowledge raises e
AcknowledgeRaises(e) ==
    /\ pc = "ack"
    /\ e \in TransportErrors
    /\ IsNotFound(e) \/ errors < MaxErrors
    /\ error' = e
    /\ pc' = "except"
    /\ UNCHANGED <<is_consuming, check_threads, mode, calls, callback, maximum_messages,
                   batch_size, pubsub_request, messages_count, received_messages,
                   callback_result, outcome, clients, credentials, pulls, last_pull, slept,
                   errors, delivered, called_back, failed_message, acknowledged,
                   last_ack_ids, subscriptions, pushVars>>

\* except GoogleAPICallError as e: if isinstance(e, NotFound): raise e
ExceptNotFound ==
    /\ pc = "except"
    /\ IsNotFound(error)
    /\ pc' = "raised"
    /\ outcome' = "NotFound"
    /\ UNCHANGED <<is_consuming, check_threads, mode, calls, callback, maximum_messages,
                   batch_size, pubsub_request, messages_count, received_messages,
                   callback_result, error, clients, credentials, pulls, last_pull, slept,
                   errors, delivered, called_back, failed_message, acknowledged,
                   last_ack_ids, subscriptions, pushVars>>

\* faulty variant of ExceptTransient: the handler gives up instead of retrying
ExceptTransientGivesUp ==
    /\ pc = "except"
    /\ ~IsNotFound(error)
    /\ slept' = slept + RetryDelay
    /\ errors' = errors + 1
    /\ pc' = "raised"
    /\ outcome' = "retries exhausted"
    /\ UNCHANGED <<is_consuming, check_threads, mode, calls, callback, maximum_messages,
                   batch_size, pubsub_request, messages_count, received_messages,
                   callback_result, error, clients, credentials, pulls, last_pull,
                   delivered, called_back, failed_message, acknowledged, last_ack_ids,
                   subscriptions, pushVars>>

\* otherwise: time.sleep(10); pubsub_client = get_client_subscription(); loop again
ExceptTransient ==
    /\ pc = "except"
    /\ ~IsNotFound(error)
    /\ slept' = slept + RetryDelay
    /\ clients' = clients + 1
    /\ errors' = errors + 1
    /\ error' = "none"
    /\ received_messages' = <<>>
    /\ pc' = "loop"
    /\ UNCHANGED <<is_consuming, check_threads, mode, calls, callback, maximum_messages,
                   batch_size, pubsub_request, messages_count, callback_result, outcome,
                   credentials, pulls, last_pull, delivered, called_back, failed_message,
                   acknowledged, last_ack_ids, subscriptions, pushVars>>

\* ------------------------------------- listen past the counts of its record
\* The loop of listen has no counter of pulls or of errors: pulls, errors,
\* clients and slept record the call for the properties. Past their bounds the
\* loop goes on: errors, clients and slept stay, and pulls alternates between
\* MaxPulls and MaxPulls + 1, so that a pull without messages is a step.

\* pubsub_client.pull answers with n messages, the count of pulls being at its bound
PullAgain(n) ==
    /\ pc = "loop"
    /\ LoopContinues(maximum_messages, messages_count)
    /\ pulls >= MaxPulls
    /\ batch_size' = ShrunkBatch(batch_size, maximum_messages, messages_count)
    /\ pulls' = IF pulls = MaxPulls THEN MaxPulls + 1 ELSE MaxPulls
    /\ last_pull' = [max_messages |-> pubsub_request.max_messages,
                     processed |-> messages_count]
    /\ n \in 0..pubsub_request.max_messages
    /\ LET first == Cardinality(delivered) + 1
           batch == [i \in 1..n |-> first + i - 1]
       IN /\ delivered' = delivered \cup {batch[i] : i \in 1..n}
          /\ received_messages' = batch
          /\ pc' = IF n = 0 THEN "loop" ELSE "callback"
    /\ UNCHANGED <<is_consuming, check_threads, mode, calls, callback, maximum_messages,
                   pubsub_request, messages_count, callback_result, error, outcome, clients,
                   credentials, slept, errors, called_back, failed_message,
                   acknowledged, last_ack_ids, subscriptions, pushVars>>

\* pubsub_client.pull raises a GoogleAPICallError that is no NotFound, a count
\* of the record being at its bound
PullRaisesAgain ==
    /\ pc = "loop"
    /\ LoopContinues(maximum_messages, messages_count)
    /\ pulls >= MaxPulls \/ errors = MaxErrors
    /\ batch_size' = ShrunkBatch(batch_size, maximum_messages, messages_count)
    /\ last_pull' = [max_messages |-> pubsub_request.max_messages,
                     processed |-> messages_count]
    /\ pulls' = IF pulls = MaxPulls + 1 THEN MaxPulls ELSE pulls + 1
    /\ error' = "GoogleAPICallError"
    /\ pc' = "except"
    /\ UNCHANGED <<is_consuming, check_threads, mode, calls, callback, maximum_messages,
                   pubsub_request, messages_count, received_messages, callback_result,
                   outcome, clients, credentials, slept, errors, delivered, called_back,
                   failed_message, acknowledged, last_ack_ids, subscriptions, pushVars>>

\* time.sleep(10); pubsub_client = get_client_subscription(); loop again, the
\* count of errors being at its bound
ExceptTransientAgain ==
    /\ pc = "except"
    /\ ~IsNotFound(error)
    /\ errors = MaxErrors
    /\ error' = "none"
    /\ received_messages' = <<>>
    /\ pc' = "loop"
    /\ UNCHANGED <<is_consuming, check_threads, mode, calls, callback, maximum_messages,
                   batch_size, pubsub_request, messages_count, callback_result, outcome,
                   clients, credentials, pulls, last_pull, slept, errors, delivered,
                   called_back, failed_message, acknowledged, last_ack_ids, subscriptions,
                   pushVars>>

\* ------------------------------------------------- listen_async (push mode)
\* listen_async(callback): get_client_subscription, check_exceeded_thread,
\* fetch_credentials, subscribe(subscription_path, callback=...), return
ListenAsync(cb) ==
    /\ Callable
    /\ calls' = calls + 1
    /\ mode' = "listen_async"
    /\ callback' = cb
    /\ clients' = 1
    /\ check_threads' = [check_threads EXCEPT ![calls + 1] = NewThread("listen_async")]
    /\ credentials' = 1
    /\ subscriptions' = subscriptions + 1
    /\ registered' = registered \cup {cb}
    /\ FreshCall
    /\ pc' = "returned"
    /\ outcome' = "registered"
    /\ UNCHANGED <<is_consuming, maximum_messages, batch_size, pubsub_request,
                   push_received, push_called, push_raised, push_acked>>

\* faulty variant of PushDispatch: the message is acknowledged twice
PushDispatchAckTwice ==
    /\ subscriptions > 0
    /\ push_received < MaxPush
    /\ push_received' = push_received + 1
    /\ push_called' = push_called + 1
    /\ push_acked' = push_acked + 2
    /\ UNCHANGED <<is_consuming, check_threads, pumpVars, registered, push_raised>>

\* ack_message_and_callback(message), run by the channel's dispatcher:
\* callback(news_message, subscription_id) returns, then message.ack()
PushDispatch ==
    /\ subscriptions > 0
    /\ push_received < MaxPush
    /\ push_received' = push_received + 1
    /\ push_called' = push_called + 1
    /\ push_acked' = push_acked + 1
    /\ UNCHANGED <<is_consuming, check_threads, pumpVars, registered, push_raised>>

\* ack_message_and_callback(message) when the callback raises: message.ack()
\* is not reached
PushDispatchRaise ==
    /\ subscriptions > 0
    /\ \E cb \in registered : CallbackMayRaise(cb)
    /\ push_received < MaxPush
    /\ push_received' = push_received + 1
    /\ push_called' = push_called + 1
    /\ push_raised' = push_raised + 1
    /\ UNCHANGED <<is_consuming, check_threads, pumpVars, registered, push_acked>>

\* ------------------------------------------- _check_exceeded (the watchdog)
WdRunning(t) ==
    /\ check_threads[t].pc = "running"
    /\ is_consuming

\* faulty variant of WdStatusUnexpected: the unexpected answer is skipped, the loop goes on
WdStatusUnexpectedIgnored(t, code) ==
    /\ WdRunning(t)
    /\ code \in StatusCodes \ {HTTP_OK}
    /\ check_threads' = [check_threads EXCEPT
            ![t].status_code = code, ![t].limit_status_code = 0]
    /\ UNCHANGED <<is_consuming, pumpVars, pushVars>>

\* the stream request answers with an unexpected status code:
\* raise RuntimeError('HTTP API Response unexpected')
WdStatusUnexpected(t, code) ==
    /\ WdRunning(t)
    /\ code \in StatusCodes \ {HTTP_OK}
    /\ check_threads' = [check_threads EXCEPT
            ![t].status_code = code,
            ![t].limit_status_code = 0, ![t].pc = "failed"]
    /\ UNCHANGED <<is_consuming, pumpVars, pushVars>>

\* 200 and job_status is not DOC_COUNT_EXCEEDED: sleep, loop again
WdStatusOk(t, job_status) ==
    /\ WdRunning(t)
    /\ job_status \in JobStatuses \ {"DOC_COUNT_EXCEEDED"}
    /\ check_threads' = [check_threads EXCEPT
            ![t].status_code = HTTP_OK,
            ![t].limit_status_code = 0]
    /\ UNCHANGED <<is_consuming, pumpVars, pushVars>>

\* faulty variant of WdExceeded: the watchdog stops consumption when the limit is exceeded
WdExceededStopsPump(t, limit) ==
    /\ WdRunning(t)
    /\ limit \in AllowedExtracts
    /\ check_threads' = [check_threads EXCEPT
            ![t].status_code = HTTP_OK,
            ![t].limit_status_code = HTTP_OK, ![t].limit_msg = limit]
    /\ is_consuming' = FALSE
    /\ UNCHANGED <<pumpVars, pushVars>>

\* 200 and DOC_COUNT_EXCEEDED, the account request answers 200:
\* limit_msg = max_allowed_extracts; sleep, loop again
WdExceeded(t, limit) ==
    /\ WdRunning(t)
    /\ limit \in AllowedExtracts
    /\ check_threads' = [check_threads EXCEPT
            ![t].status_code = HTTP_OK,
            ![t].limit_status_code = HTTP_OK, ![t].limit_msg = limit]
    /\ UNCHANGED <<is_consuming, pumpVars, pushVars>>

\* 200 and DOC_COUNT_EXCEEDED, the account request answers with an unexpected
\* status code: raise RuntimeError
WdLimitsUnexpected(t, code) ==
    /\ WdRunning(t)
    /\ code \in StatusCodes \ {HTTP_OK}
    /\ check_threads' = [check_threads EXCEPT
            ![t].status_code = HTTP_OK,
            ![t].limit_status_code = code, ![t].pc = "failed"]
    /\ UNCHANGED <<is_consuming, pumpVars, pushVars>>

\* the while condition fails: the final report is printed, the thread ends
WdFinish(t) ==
    /\ check_threads[t].pc = "running"
    /\ ~is_consuming
    /\ check_threads' = [check_threads EXCEPT
            ![t].pc = "done", ![t].report = FinalReport(check_threads[t].limit_msg)]
    /\ UNCHANGED <<is_consuming, pumpVars, pushVars>>

\* ------------------------------------------------------- Stream operations
\* what a Stream operation reports
Op(op, s, id, status, requests, endpoint, result) ==
    [op |-> op, stream |-> s, id |-> id, status |-> status,
     requests |-> requests, endpoint |-> endpoint, reported |-> <<>>, outcome |-> result]

\* faulty variant of NeitherDefined: the check is skipped
NeitherDefinedNever(st) == FALSE

\* create: not self.snapshot_id and not self.query
NeitherDefined(st) == Falsy(st.snapshot_id) /\ QueryUndefined(st.query)

\* create: if self.snapshot_id, by snapshot id, else by query
CreationEndpoint(st) ==
    IF ~Falsy(st.snapshot_id) THEN "snapshots/{id}/streams" ELSE "streams"

\* faulty variant of StreamIdUndefined: the check is skipped
StreamIdUndefinedNever(st) == FALSE

\* if not self.stream_id
StreamIdUndefined(st) == Falsy(st.stream_id)

\* faulty variant of Created: a 200 is taken for a creation
CreatedOrOk(status) == status \in {HTTP_CREATED, HTTP_OK}

\* if response.status_code == 201
Created(status) == status = HTTP_CREATED

\* faulty variant of NotInSubscriptions: the check is skipped
NotInSubscriptionsNever(id, d) == FALSE

\* delete_subscription: if id not in self.subscriptions
NotInSubscriptions(id, d) == id \notin DOMAIN d

\* delete: elif response == 404, the response object against a number
ResponseEquals(response_status, number) == FALSE

\* create(): ValueError with neither a snapshot_id nor a query; otherwise one
\* POST to the endpoint of the kind; on 201 the stream_id of the response and
\* create_default_subscription, on any other status UNEXPECTED_HTTP_ERROR
StreamCreate(s, status, reported) ==
    LET st == streams[s]
        loaded == CreateDefaultSubscription(subscriptions_dict, next_stream, reported)
    IN
    /\ reported \in IF ~NeitherDefined(st) /\ status = HTTP_CREATED
                     THEN ReportedSubscriptions ELSE {<<>>}
    /\ (~NeitherDefined(st) /\ status = HTTP_CREATED) =>
            next_stream <= MaxStreamIds /\ MaxOf(reported) <= MaxSubIds
    /\ IF NeitherDefined(st)
       THEN /\ last_op' = Op("create", s, None, None, 0, "none", "ValueError")
            /\ UNCHANGED <<streams, subscriptions_dict, next_stream, next_sub>>
       ELSE IF Created(status)
       THEN /\ streams' = [streams EXCEPT ![s].stream_id = next_stream]
            /\ subscriptions_dict' = loaded.dict
            /\ next_stream' = next_stream + 1
            /\ next_sub' = IF MaxOf(reported) >= next_sub THEN MaxOf(reported) + 1 ELSE next_sub
            /\ last_op' = [Op("create", s, next_stream, status, 1, CreationEndpoint(st),
                              IF loaded.error = "none" THEN "ok" ELSE loaded.error)
                            EXCEPT !.reported = reported]
       ELSE /\ last_op' = Op("create", s, None, status, 1, CreationEndpoint(st),
                             "UNEXPECTED_HTTP_ERROR")
            /\ UNCHANGED <<streams, subscriptions_dict, next_stream, next_sub>>
    /\ UNCHANGED <<subscription, listenerVars, jobVars>>

\* create_subscription(): Subscription(stream_id) (raises without a
\* stream_id), create (POST, id of the response on 201, raises otherwise),
\* create_listener (raises without an id), the insertion; any exception
\* becomes the RuntimeError of create_subscription
CreateSubscription(s, status, id) ==
    LET st == streams[s] IN
    /\ id \in IF ~StreamIdUndefined(st) /\ status = HTTP_CREATED THEN {next_sub, 0} ELSE {None}
    /\ id = next_sub => next_sub <= MaxSubIds
    /\ IF StreamIdUndefined(st)
       THEN /\ last_op' = Op("create_subscription", s, None, None, 0, "none",
                             "RuntimeError: creating the subscription")
            /\ UNCHANGED <<subscriptions_dict, next_sub>>
       ELSE IF Created(status) /\ ~Falsy(id)
       THEN /\ subscriptions_dict' = DictSet(subscriptions_dict, id, BoundSubscription(id, st.stream_id))
            /\ next_sub' = next_sub + 1
            /\ last_op' = Op("create_subscription", s, id, status, 1, "streams/{id}/subscriptions", "ok")
       ELSE /\ last_op' = Op("create_subscription", s, None, status, 1, "streams/{id}/subscriptions",
                             "RuntimeError: creating the subscription")
            /\ UNCHANGED <<subscriptions_dict, next_sub>>
    /\ UNCHANGED <<streams, next_stream, subscription, listenerVars, jobVars>>

\* delete_subscription(id): INVALID_SUBSCRIPTION_ID_ERROR for an id that is
\* not a key; otherwise Subscription.delete (DELETE, True on 200, raises
\* otherwise), del self.subscriptions[id] on True, RuntimeError on an exception
DeleteSubscription(s, id, status) ==
    /\ IF NotInSubscriptions(id, subscriptions_dict)
       THEN /\ last_op' = Op("delete_subscription", s, id, None, 0, "none",
                             "INVALID_SUBSCRIPTION_ID_ERROR")
            /\ UNCHANGED subscriptions_dict
       ELSE IF status = HTTP_OK
       THEN /\ subscriptions_dict' = DictDel(subscriptions_dict, id)
            /\ last_op' = Op("delete_subscription", s, id, status, 1, "streams/{id}/subscriptions/{id}", "ok")
       ELSE /\ last_op' = Op("delete_subscription", s, id, status, 1, "streams/{id}/subscriptions/{id}",
                             "RuntimeError: Unable to delete subscription")
            /\ UNCHANGED subscriptions_dict
    /\ UNCHANGED <<streams, next_stream, next_sub, subscription, listenerVars, jobVars>>

\* get_info(): UNDEFINED_STREAM_ID_ERROR without a stream_id; otherwise one
\* GET, the response on 200, RuntimeError(response.text) on any other status
GetInfo(s, status) ==
    /\ IF StreamIdUndefined(streams[s])
       THEN last_op' = Op("get_info", s, None, None, 0, "none", "UNDEFINED_STREAM_ID_ERROR")
       ELSE IF status = HTTP_OK
       THEN last_op' = Op("get_info", s, streams[s].stream_id, status, 1, "streams/{id}", "ok")
       ELSE last_op' = Op("get_info", s, streams[s].stream_id, status, 1, "streams/{id}",
                          "RuntimeError: response.text")
    /\ UNCHANGED <<streams, subscriptions_dict, next_stream, next_sub, subscription, listenerVars, jobVars>>

\* delete(): UNDEFINED_STREAM_ID_ERROR without a stream_id; otherwise one
\* DELETE, the response on 200, 'The Stream does not exist' when response ==
\* 404, UNEXPECTED_HTTP_ERROR otherwise
StreamDelete(s, status) ==
    /\ IF StreamIdUndefined(streams[s])
       THEN last_op' = Op("delete", s, None, None, 0, "none", "UNDEFINED_STREAM_ID_ERROR")
       ELSE IF status = HTTP_OK
       THEN last_op' = Op("delete", s, streams[s].stream_id, status, 1, "streams/{id}", "ok")
       ELSE IF ResponseEquals(status, HTTP_NOT_FOUND)
       THEN last_op' = Op("delete", s, streams[s].stream_id, status, 1, "streams/{id}",
                          "RuntimeError: The Stream does not exist")
       ELSE last_op' = Op("delete", s, streams[s].stream_id, status, 1, "streams/{id}",
                          "UNEXPECTED_HTTP_ERROR")
    /\ UNCHANGED <<streams, subscriptions_dict, next_stream, next_sub, subscription, listenerVars, jobVars>>

\* the subscriptions a GET of the stream reports: ids the platform has assigned
KnownSubscriptions ==
    {<<i>> : i \in 0..(next_sub - 1)} \cup {<<i, j>> : i, j \in 1..(next_sub - 1)}

\* set_all_subscriptions(): UNDEFINED_STREAM_ID_ERROR without a stream_id;
\* otherwise one GET, create_default_subscription on 200,
\* UNEXPECTED_HTTP_ERROR on any other status
SetAllSubscriptions(s, status, reported) ==
    LET st == streams[s]
        loaded == CreateDefaultSubscription(subscriptions_dict, st.stream_id, reported)
    IN
    /\ reported \in IF ~StreamIdUndefined(st) /\ status = HTTP_OK
                     THEN KnownSubscriptions ELSE {<<>>}
    /\ IF StreamIdUndefined(st)
       THEN /\ last_op' = Op("set_all_subscriptions", s, None, None, 0, "none",
                             "UNDEFINED_STREAM_ID_ERROR")
            /\ UNCHANGED subscriptions_dict
       ELSE IF status = HTTP_OK
       THEN /\ subscriptions_dict' = loaded.dict
            /\ last_op' = [Op("set_all_subscriptions", s, st.stream_id, status, 1, "streams/{id}",
                              IF loaded.error = "none" THEN "ok" ELSE loaded.error)
                            EXCEPT !.reported = reported]
       ELSE /\ last_op' = Op("set_all_subscriptions", s, st.stream_id, status, 1, "streams/{id}",
                             "UNEXPECTED_HTTP_ERROR")
            /\ UNCHANGED subscriptions_dict
    /\ UNCHANGED <<streams, next_stream, next_sub, subscription, listenerVars, jobVars>>

\* --------------------------------------------------- Subscription operations
\* Subscription.create(headers): one POST; on 201 the id of the response,
\* RuntimeError on any other status
SubscriptionCreate(status, id) ==
    /\ id \in IF status = HTTP_CREATED THEN 0..MaxSubIds ELSE {None}
    /\ IF Created(status)
       THEN /\ subscription' = [subscription EXCEPT !.id = id]
            /\ last_op' = Op("Subscription.create", "none", id, status, 1,
                             "streams/{id}/subscriptions", "ok")
       ELSE /\ last_op' = Op("Subscription.create", "none", None, status, 1,
                             "streams/{id}/subscriptions", "RuntimeError: Unexpected API response")
            /\ UNCHANGED subscription
    /\ UNCHANGED <<streams, subscriptions_dict, next_stream, next_sub, listenerVars, jobVars>>

\* create_listener(user): RuntimeError when user is no StreamUser; otherwise
\* Listener(subscription_id=self.id, stream_user=user), which raises
\* UNDEFINED_SUBSCRIPTION_ERROR for a falsy id before self.listener is assigned
CreateListener(is_stream_user) ==
    /\ IF ~is_stream_user
       THEN /\ last_op' = Op("create_listener", "none", subscription.id, None, 0, "none",
                             "RuntimeError: user is not a StreamUser instance")
            /\ UNCHANGED subscription
       ELSE IF Falsy(subscription.id)
       THEN /\ last_op' = Op("create_listener", "none", subscription.id, None, 0, "none",
                             "UNDEFINED_SUBSCRIPTION_ERROR")
            /\ UNCHANGED subscription
       ELSE /\ subscription' = [subscription EXCEPT !.listener = subscription.id]
            /\ last_op' = Op("create_listener", "none", subscription.id, None, 0, "none", "ok")
    /\ UNCHANGED <<streams, subscriptions_dict, next_stream, next_sub, listenerVars, jobVars>>

\* faulty variant of ListenerUninitialized: the check is left out
ListenerUninitializedNever(sub) == FALSE

\* if not self.listener
ListenerUninitialized(sub) == sub.listener = None

\* consume_messages(callback, maximum_messages, batch_size): RuntimeError
\* without a listener, otherwise self.listener.listen(...)
ConsumeMessages ==
    /\ last_op' = Op("consume_messages", "none", subscription.listener, None, 0, "none",
                     IF ListenerUninitialized(subscription)
                     THEN "RuntimeError: uninitialized listener" ELSE "listen")
    /\ UNCHANGED <<streams, subscriptions_dict, next_stream, next_sub, subscription,
                   listenerVars, jobVars>>

\* consume_async_messages(callback): RuntimeError without a listener,
\* otherwise self.listener.listen_async(...)
ConsumeAsyncMessages ==
    /\ last_op' = Op("consume_async_messages", "none", subscription.listener, None, 0, "none",
                     IF ListenerUninitialized(subscription)
                     THEN "RuntimeError: uninitialized listener" ELSE "listen_async")
    /\ UNCHANGED <<streams, subscriptions_dict, next_stream, next_sub, subscription,
                   listenerVars, jobVars>>

\* ----------------------------------------------------------- get_job_id
\* get_job_id(source) of a job of the given class, on a response carrying id
GetJobId(kind, id) ==
    /\ job_kind = "none"
    /\ job_kind' = kind
    /\ source_id' = id
    /\ job_id' = GetJobIdOf(kind, id)
    /\ UNCHANGED <<listenerVars, streamVars, recordVars>>

\* ------------------------------------------------------------ job operations
\* faulty variant of PollResult: the link is not looked at, the request is sent
PollResultEmptyUrl(j, status, source) ==
    IF status = HTTP_OK
    THEN [job |-> Polled(j, source), requests |-> 1, outcome |-> "ok"]
    ELSE [job |-> j, requests |-> 1, outcome |-> "RuntimeError: unexpected status"]

\* get_job_results: RuntimeError without a link and no request; otherwise one
\* GET of the link, the status and the data of the response on 200,
\* RuntimeError on any other status
PollResult(j, status, source) ==
    IF j.link = <<>>
    THEN [job |-> j, requests |-> 0, outcome |-> "RuntimeError: job not submitted"]
    ELSE IF status = HTTP_OK
    THEN [job |-> Polled(j, source), requests |-> 1, outcome |-> "ok"]
    ELSE [job |-> j, requests |-> 1, outcome |-> "RuntimeError: unexpected status"]

\* submit_job: one POST; on 201 the job_id, the link and status Submitted,
\* RuntimeError on any other status
SubmitResult(j, status, id) ==
    IF status = HTTP_CREATED
    THEN [job |-> Submitted(j, id), requests |-> 1, outcome |-> "ok"]
    ELSE [job |-> j, requests |-> 1, outcome |-> "RuntimeError: unexpected status"]

\* UpdateJob.__init__: if update_id and (update_type or snapshot_id)
UpdateIdIncompatible(update_type, snapshot_id, update_id) ==
    update_id # <<>> /\ (update_type # <<>> \/ snapshot_id # <<>>)

\* faulty variant of UpdateTypeAndSnapshot: one of the two is enough
UpdateTypeOrSnapshot(update_type, snapshot_id) ==
    update_type # <<>> \/ snapshot_id # <<>>

\* UpdateJob.__init__: elif update_type and snapshot_id
UpdateTypeAndSnapshot(update_type, snapshot_id) ==
    update_type # <<>> /\ snapshot_id # <<>>

\* UpdateJob.__init__(update_type, snapshot_id, update_id, api_user): the
\* object when it returns, the requests it issued, how it ended
UpdateJobInit(update_type, snapshot_id, update_id, status, source) ==
    LET fresh == NewExtractionJobRecord("UpdateJob", <<>>)
        parts == Split(update_id)
    IN
    IF UpdateIdIncompatible(update_type, snapshot_id, update_id)
    THEN [job |-> NoJobRecord, requests |-> 0,
          outcome |-> "Exception: update_id is not compatible"]
    ELSE IF update_id # <<>>
    THEN IF Len(parts) < 2
         THEN [job |-> NoJobRecord, requests |-> 0, outcome |-> "IndexError"]
         ELSE LET known == [fresh EXCEPT !.job_id = update_id,
                                         !.update_type = parts[2],
                                         !.snapshot_id = parts[1],
                                         !.link = LinkFor(update_id)]
                  polled == PollResult(known, status, source)
              IN IF polled.outcome = "ok" THEN polled
                 ELSE [polled EXCEPT !.job = NoJobRecord]
    ELSE IF UpdateTypeAndSnapshot(update_type, snapshot_id)
    THEN [job |-> [fresh EXCEPT !.update_type = update_type, !.snapshot_id = snapshot_id],
          requests |-> 0, outcome |-> "ok"]
    ELSE [job |-> NoJobRecord, requests |-> 0,
          outcome |-> "Exception: Not enough parameters"]

\* ExplainJob(api_user), AnalyticsJob(api_user)
NewJob(kind) ==
    /\ job.kind = "none"
    /\ job' = NewJobRecord(kind)
    /\ job_op' = JobOp("__init__", 0, "ok")
    /\ UNCHANGED <<job_pc, retrieval, snapshot_obj>>

\* ExtractionJob(snapshot_id, api_user)
NewExtractionJob(snapshot_id) ==
    /\ job.kind = "none"
    /\ job' = NewExtractionJobRecord("ExtractionJob", snapshot_id)
    /\ job_op' = JobOp("__init__", 0, "ok")
    /\ UNCHANGED <<job_pc, retrieval, snapshot_obj>>

\* UpdateJob(update_type, snapshot_id, update_id, api_user)
NewUpdateJob(update_type, snapshot_id, update_id, status, source) ==
    LET made == UpdateJobInit(update_type, snapshot_id, update_id, status, source) IN
    /\ job.kind = "none"
    /\ job_op.op = "none"
    /\ job' = made.job
    /\ job_op' = [JobOp("UpdateJob", made.requests, made.outcome)
                  EXCEPT !.arguments = <<update_type, snapshot_id, update_id>>,
                         !.status = IF made.requests = 0 THEN None ELSE status]
    /\ UNCHANGED <<job_pc, retrieval, snapshot_obj>>

\* submit_job(payload)
SubmitJob(status, id) ==
    LET sent == SubmitResult(job, status, id) IN
    /\ job.kind # "none"
    /\ job_pc = "idle"
    /\ id \in IF status = HTTP_CREATED THEN ResponseIds ELSE {<<>>}
    /\ job' = sent.job
    /\ job_op' = [JobOp("submit_job", sent.requests, sent.outcome)
                  EXCEPT !.response_id = id, !.status = status]
    /\ UNCHANGED <<job_pc, retrieval, snapshot_obj>>

\* get_job_results()
GetJobResults(status, source) ==
    LET polled == PollResult(job, status, source) IN
    /\ job.kind # "none"
    /\ job_pc = "idle"
    /\ job' = polled.job
    /\ job_op' = JobOp("get_job_results", polled.requests, polled.outcome)
    /\ UNCHANGED <<job_pc, retrieval, snapshot_obj>>

\* the classes whose process_job downloads the files
DownloadingKinds == {"ExtractionJob", "UpdateJob"}

\* the loop of process_job: poll until the status is terminal
WaitStart ==
    /\ job.kind # "none"
    /\ job_pc = "idle"
    /\ job_pc' = "waiting"
    /\ job_op' = JobOp("wait_until_done", 0, "running")
    /\ UNCHANGED <<job, retrieval, snapshot_obj>>

\* process_job(payload): submit_job, then the loop
ProcessStart(status, id) ==
    LET sent == SubmitResult(job, status, id) IN
    /\ job.kind # "none"
    /\ job_pc = "idle"
    /\ id \in IF status = HTTP_CREATED THEN ResponseIds ELSE {<<>>}
    /\ job' = sent.job
    /\ job_pc' = IF sent.outcome = "ok" THEN "waiting" ELSE "idle"
    /\ job_op' = [JobOp("process_job", sent.requests,
                        IF sent.outcome = "ok" THEN "running" ELSE sent.outcome)
                  EXCEPT !.response_id = id, !.status = status]
    /\ UNCHANGED <<retrieval, snapshot_obj>>

\* faulty variant of StillWaiting: the loop polls once more after a terminal status
StillWaitingPastTerminal(j) == TRUE

\* the loop goes on while the status is not terminal
StillWaiting(j) == j.job_state \notin TerminalStates

\* one round of the loop: get_job_results; an exception ends the call
WaitPoll(status, source) ==
    LET polled == PollResult(job, status, source) IN
    /\ job_pc = "waiting"
    /\ StillWaiting(job)
    /\ job' = polled.job
    /\ job_pc' = IF polled.outcome = "ok" THEN "waiting" ELSE "idle"
    /\ job_op' = [job_op EXCEPT !.requests = polled.requests,
                                !.outcome = IF polled.outcome = "ok" THEN "running"
                                            ELSE polled.outcome]
    /\ UNCHANGED <<retrieval, snapshot_obj>>

\* the loop ends on a terminal status; process_job of ExplainJob and
\* AnalyticsJob returns with it
WaitReturn ==
    /\ job_pc = "waiting"
    /\ ~StillWaiting(job)
    /\ job_op.op = "process_job" => job.kind \notin DownloadingKinds
    /\ job_pc' = "idle"
    /\ job_op' = [job_op EXCEPT !.outcome = "ok"]
    /\ UNCHANGED <<job, retrieval, snapshot_obj>>

\* download_job_files(path) begins: the files of the job are to be retrieved
Retrieving ==
    [left |-> job.files, written |-> <<>>, requests |-> 0,
     outcome |-> "running", job_state |-> job.job_state]

\* ExtractionJob.process_job: super().process_job(payload) returned, then
\* self.download_job_files(path)
ProcessDownload ==
    /\ job_pc = "waiting"
    /\ ~StillWaiting(job)
    /\ job_op.op = "process_job"
    /\ job.kind \in DownloadingKinds
    /\ job_pc' = "downloading"
    /\ retrieval' = Retrieving
    /\ UNCHANGED <<job, job_op, snapshot_obj>>

\* download_job_files(path) called on the job
DownloadJobFiles ==
    /\ job.kind \in DownloadingKinds
    /\ job_pc = "idle"
    /\ job_pc' = "downloading"
    /\ job_op' = JobOp("download_job_files", 0, "running")
    /\ retrieval' = Retrieving
    /\ UNCHANGED <<job, snapshot_obj>>

\* faulty variant of AfterFailedDownload: the remaining files are still tried
AfterFailedDownloadGoOn(r) ==
    [r EXCEPT !.left = Tail(r.left), !.requests = r.requests + 1]

\* a retrieval request that failed: the error ends the download
AfterFailedDownload(r) ==
    [r EXCEPT !.requests = r.requests + 1, !.outcome = "error"]

\* one retrieval request, for the next file of the list: written when it
\* succeeds, the error raised when it fails
DownloadFile(ok) ==
    LET next == IF ok THEN [retrieval EXCEPT !.left = Tail(retrieval.left),
                                             !.written = Append(retrieval.written, Head(retrieval.left)),
                                             !.requests = retrieval.requests + 1]
                ELSE AfterFailedDownload(retrieval)
    IN
    /\ job_pc = "downloading"
    /\ retrieval.left # <<>>
    /\ retrieval' = next
    /\ job_pc' = IF next.outcome = "error" THEN "idle" ELSE "downloading"
    /\ job_op' = IF next.outcome = "error"
                 THEN [job_op EXCEPT !.outcome = "RuntimeError: download"] ELSE job_op
    /\ UNCHANGED <<job, snapshot_obj>>

\* every file of the list was written: the download reports success
DownloadDone ==
    /\ job_pc = "downloading"
    /\ retrieval.left = <<>>
    /\ retrieval' = [retrieval EXCEPT !.outcome = "ok"]
    /\ job_pc' = "idle"
    /\ job_op' = [job_op EXCEPT !.outcome = "ok"]
    /\ UNCHANGED <<job, snapshot_obj>>

\* the id of an update job from get_job_id of its submission response, then
\* UpdateJob(update_id=...) built from that id
UpdateIdRoundTrip(snapshot_id, update_type, datetime, status, source) ==
    LET response_id == ResponseIdOf(ApiKey, snapshot_id, update_type, datetime)
        update_id == UpdateGetJobId(response_id)
        made == UpdateJobInit(<<>>, <<>>, update_id, status, source)
    IN
    /\ job_kind' = "UpdateJob"
    /\ source_id' = response_id
    /\ job_id' = update_id
    /\ job' = made.job
    /\ job_op' = [JobOp("UpdateJob", made.requests, made.outcome)
                  EXCEPT !.arguments = <<snapshot_id, update_type, datetime>>,
                         !.status = status]
    /\ UNCHANGED <<job_pc, retrieval, snapshot_obj, listenerVars, streamVars>>

\* ------------------------------------------------------ Snapshot operations
\* Snapshot(), Snapshot(query=...) and Snapshot(snapshot_id=...): without
\* either no extraction job; with a query an ExtractionJob without job_id;
\* with a snapshot_id an ExtractionJob that carries it
SnapshotsConstructed ==
    {NoSnapshot}
    \cup {[NoSnapshot EXCEPT !.last_extraction_job = "ExtractionJob",
                             !.extraction_job_id = snapshot_id] :
            snapshot_id \in SnapshotIdArguments}

\* the answer a constructor that sends no request never looks at
NoResponse == [state |-> "Pending", counts |-> 0, results |-> <<>>, files |-> <<>>, format |-> ""]

\* UpdateJob(update_type=update_type, snapshot_id=self.last_extraction_job.job_id)
SnapshotUpdateJob(update_type) ==
    IF snapshot_obj.last_extraction_job = "None"
    THEN [job |-> NoJobRecord, requests |-> 0, outcome |-> "AttributeError"]
    ELSE UpdateJobInit(update_type, snapshot_obj.extraction_job_id, <<>>, None, NoResponse)

\* submit_extraction_job(): submit_job on last_extraction_job
SubmitExtractionJob(status, id) ==
    LET sent == SubmitResult(NewExtractionJobRecord("ExtractionJob", snapshot_obj.extraction_job_id),
                             status, id)
    IN
    /\ job_pc = "idle"
    /\ id \in IF status = HTTP_CREATED THEN ResponseIds ELSE {<<>>}
    /\ IF snapshot_obj.last_extraction_job = "None"
       THEN /\ job_op' = JobOp("submit_extraction_job", 0, "AttributeError")
            /\ UNCHANGED snapshot_obj
       ELSE /\ job_op' = JobOp("submit_extraction_job", sent.requests, sent.outcome)
            /\ snapshot_obj' = [snapshot_obj EXCEPT !.extraction_job_id = sent.job.job_id]
    /\ UNCHANGED <<job, job_pc, retrieval>>

\* submit_update_job(update_type): the UpdateJob is built and assigned to
\* last_update_job, then submitted; nothing is assigned when its constructor raises
SubmitUpdateJob(update_type, status, id) ==
    LET made == SnapshotUpdateJob(update_type)
        sent == SubmitResult(made.job, status, id)
    IN
    /\ job_pc = "idle"
    /\ id \in IF status = HTTP_CREATED THEN ResponseIds ELSE {<<>>}
    /\ IF made.outcome # "ok"
       THEN /\ job_op' = JobOp("submit_update_job", 0, made.outcome)
            /\ UNCHANGED <<job, snapshot_obj>>
       ELSE /\ snapshot_obj' = [snapshot_obj EXCEPT !.last_update_job = "UpdateJob"]
            /\ job' = sent.job
            /\ job_op' = JobOp("submit_update_job", sent.requests, sent.outcome)
    /\ UNCHANGED <<job_pc, retrieval>>

\* process_update(update_type, download_path): the UpdateJob is built and
\* assigned to last_update_job, then process_job runs on it
ProcessUpdate(update_type, status, id) ==
    LET made == SnapshotUpdateJob(update_type)
        sent == SubmitResult(made.job, status, id)
    IN
    /\ job_pc = "idle"
    /\ id \in IF status = HTTP_CREATED THEN ResponseIds ELSE {<<>>}
    /\ IF made.outcome # "ok"
       THEN /\ job_op' = JobOp("process_job", 0, made.outcome)
            /\ UNCHANGED <<job, job_pc, snapshot_obj>>
       ELSE /\ snapshot_obj' = [snapshot_obj EXCEPT !.last_update_job = "UpdateJob"]
            /\ job' = sent.job
            /\ job_pc' = IF sent.outcome = "ok" THEN "waiting" ELSE "idle"
            /\ job_op' = JobOp("process_job", sent.requests,
                               IF sent.outcome = "ok" THEN "running" ELSE sent.outcome)
    /\ UNCHANGED retrieval

\* faulty variant of UpdateJobNotSet: the check is left out
UpdateJobNotSetNever(s) == FALSE

\* if self.last_update_job is None
UpdateJobNotSet(s) == s.last_update_job = "None"

\* get_update_job_results()
GetUpdateJobResults(status, source) ==
    LET polled == PollResult(job, status, source) IN
    /\ job_pc = "idle"
    /\ IF UpdateJobNotSet(snapshot_obj)
       THEN /\ job_op' = JobOp("get_update_job_results", 0,
                               "RuntimeError: Update job has not been set")
            /\ UNCHANGED job
       ELSE /\ job_op' = JobOp("get_update_job_results", polled.requests, polled.outcome)
            /\ job' = polled.job
    /\ UNCHANGED <<job_pc, retrieval, snapshot_obj>>

\* download_update_files(download_path)
DownloadUpdateFiles ==
    /\ job_pc = "idle"
    /\ IF UpdateJobNotSet(snapshot_obj)
       THEN /\ job_op' = JobOp("download_update_files", 0,
                               "RuntimeError: Update job has not been set")
            /\ UNCHANGED <<job_pc, retrieval>>
       ELSE /\ job_op' = JobOp("download_update_files", 0, "running")
            /\ job_pc' = "downloading"
            /\ retrieval' = Retrieving
    /\ UNCHANGED <<job, snapshot_obj>>

\* ------------------------------------------------------------ specifications
\* the steps of the caller and of the channel in pull mode
PumpStep ==
    \/ ListenFinish /\ UNCHANGED <<streamVars, jobVars>>
    \/ \E n \in 0..MaxBatch : Pull(n) /\ UNCHANGED <<streamVars, jobVars>>
    \/ \E e \in TransportErrors : PullRaises(e) /\ UNCHANGED <<streamVars, jobVars>>
    \/ \E r \in BOOLEAN : CallbackReturn(r) /\ UNCHANGED <<streamVars, jobVars>>
    \/ CallbackRaise /\ UNCHANGED <<streamVars, jobVars>>
    \/ Acknowledge /\ UNCHANGED <<streamVars, jobVars>>
    \/ \E e \in TransportErrors : AcknowledgeRaises(e) /\ UNCHANGED <<streamVars, jobVars>>
    \/ ExceptNotFound /\ UNCHANGED <<streamVars, jobVars>>
    \/ ExceptTransient /\ UNCHANGED <<streamVars, jobVars>>

\* the steps of the watchdog threads
WatchdogStep ==
    \/ \E t \in 1..MaxCalls, code \in StatusCodes : WdStatusUnexpected(t, code) /\ UNCHANGED <<streamVars, jobVars>>
    \/ \E t \in 1..MaxCalls, js \in JobStatuses : WdStatusOk(t, js) /\ UNCHANGED <<streamVars, jobVars>>
    \/ \E t \in 1..MaxCalls, limit \in AllowedExtracts : WdExceeded(t, limit) /\ UNCHANGED <<streamVars, jobVars>>
    \/ \E t \in 1..MaxCalls, code \in StatusCodes : WdLimitsUnexpected(t, code) /\ UNCHANGED <<streamVars, jobVars>>
    \/ \E t \in 1..MaxCalls : WdFinish(t) /\ UNCHANGED <<streamVars, jobVars>>

\* the steps of the channel's dispatcher in push mode
PushStep ==
    \/ PushDispatch /\ UNCHANGED <<streamVars, jobVars>>
    \/ PushDispatchRaise /\ UNCHANGED <<streamVars, jobVars>>

\* The pull-mode pump on its own, over every argument of listen: the caller
\* and the channel step, the threads a call starts are left where they start.
NextPump ==
    \/ \E cb \in Callbacks, M \in {None, 0}, B \in 1..MaxBatch : ListenUndefined(cb, M, B) /\ UNCHANGED <<streamVars, jobVars>>
    \/ \E cb \in Callbacks, M \in 1..MaxM, B \in 1..MaxBatch : ListenStart(cb, M, B) /\ UNCHANGED <<streamVars, jobVars>>
    \/ PumpStep

SpecPump == Init /\ [][NextPump]_vars

\* One call on a fresh Listener, over every argument, with the thread it
\* starts and the dispatcher interleaved.
FirstCall == calls = 0

NextCall ==
    \/ \E cb \in Callbacks, M \in {None, 0}, B \in 1..MaxBatch :
            FirstCall /\ ListenUndefined(cb, M, B) /\ UNCHANGED <<streamVars, jobVars>>
    \/ \E cb \in Callbacks, M \in 1..MaxM, B \in 1..MaxBatch :
            FirstCall /\ ListenStart(cb, M, B) /\ UNCHANGED <<streamVars, jobVars>>
    \/ \E cb \in Callbacks : FirstCall /\ ListenAsync(cb) /\ UNCHANGED <<streamVars, jobVars>>
    \/ PumpStep
    \/ PushStep
    \/ WatchdogStep

SpecCall == Init /\ [][NextCall]_vars

\* One call of listen that may go on for ever: the steps of the caller and of
\* the channel, the latter answering or failing without any limit.
LiveStep ==
    \/ ListenFinish /\ UNCHANGED <<streamVars, jobVars>>
    \/ \E n \in 0..MaxBatch : Pull(n) /\ UNCHANGED <<streamVars, jobVars>>
    \/ \E n \in 0..MaxBatch : PullAgain(n) /\ UNCHANGED <<streamVars, jobVars>>
    \/ \E e \in TransportErrors : PullRaises(e) /\ UNCHANGED <<streamVars, jobVars>>
    \/ PullRaisesAgain /\ UNCHANGED <<streamVars, jobVars>>
    \/ \E r \in BOOLEAN : CallbackReturn(r) /\ UNCHANGED <<streamVars, jobVars>>
    \/ CallbackRaise /\ UNCHANGED <<streamVars, jobVars>>
    \/ Acknowledge /\ UNCHANGED <<streamVars, jobVars>>
    \/ \E e \in TransportErrors : AcknowledgeRaises(e) /\ UNCHANGED <<streamVars, jobVars>>
    \/ ExceptNotFound /\ UNCHANGED <<streamVars, jobVars>>
    \/ errors < MaxErrors /\ ExceptTransient /\ UNCHANGED <<streamVars, jobVars>>
    \/ ExceptTransientAgain /\ UNCHANGED <<streamVars, jobVars>>

NextLive ==
    \/ \E cb \in Callbacks, M \in 1..MaxM, B \in 1..MaxBatch :
            FirstCall /\ ListenStart(cb, M, B) /\ UNCHANGED <<streamVars, jobVars>>
    \/ LiveStep

\* listen runs in the thread of its caller, which keeps running: a pull with
\* return_immediately is answered or fails, the callback comes back, the
\* acknowledge request is answered or fails, the sleep of the handler ends.
\* Nothing is assumed of what the channel answers.
SpecLive == Init /\ [][NextLive]_vars /\ WF_vars(LiveStep)

\* The whole Listener: both entry points, the channel, the dispatcher and the
\* watchdog threads interleaved; listen is called for one message at a time.
Next ==
    \/ \E cb \in Callbacks, M \in {None, 0}, B \in 1..MaxBatch : ListenUndefined(cb, M, B) /\ UNCHANGED <<streamVars, jobVars>>
    \/ \E cb \in Callbacks : ListenStart(cb, 1, 1) /\ UNCHANGED <<streamVars, jobVars>>
    \/ \E cb \in Callbacks : ListenAsync(cb) /\ UNCHANGED <<streamVars, jobVars>>
    \/ PumpStep
    \/ PushStep
    \/ WatchdogStep

Spec == Init /\ [][Next]_vars

\* One Stream object and the dict of subscriptions its class declares, under
\* every operation, argument and answer of the platform.
NextStream ==
    \/ \E status \in StreamStatusCodes, reported \in ReportedSubscriptions \cup {<<>>} :
            StreamCreate("s1", status, reported)
    \/ \E status \in StreamStatusCodes, id \in {next_sub, 0, None} :
            CreateSubscription("s1", status, id)
    \/ \E id \in 1..MaxSubIds, status \in StreamStatusCodes :
            DeleteSubscription("s1", id, status)
    \/ \E status \in StreamStatusCodes : GetInfo("s1", status)
    \/ \E status \in StreamStatusCodes : StreamDelete("s1", status)
    \/ \E status \in StreamStatusCodes, reported \in KnownSubscriptions \cup {<<>>} :
            SetAllSubscriptions("s1", status, reported)

SpecStream == InitStream /\ [][NextStream]_vars

\* Subscription(stream_id, id) as constructed: a stream_id (the constructor
\* raises without one), an id or none, no listener
InitSubscription ==
    /\ InitListener
    /\ NoJob
    /\ streams = [s \in StreamObjects |-> NewStream(None, "")]
    /\ subscriptions_dict = EmptyDict
    /\ next_stream = 1
    /\ next_sub = 1
    /\ last_op = NoOp
    /\ subscription \in {[NoSubscription EXCEPT !.stream_id = stream_id, !.id = id] :
                            stream_id \in 1..MaxStreamIds, id \in {None} \cup (0..MaxSubIds)}

\* One Subscription object under every operation that binds it or consumes
\* through it.
NextSubscription ==
    \/ \E status \in StreamStatusCodes, id \in {None} \cup (0..MaxSubIds) :
            SubscriptionCreate(status, id)
    \/ \E is_stream_user \in BOOLEAN : CreateListener(is_stream_user)
    \/ ConsumeMessages
    \/ ConsumeAsyncMessages

SpecSubscription == InitSubscription /\ [][NextSubscription]_vars

\* get_job_id of every job class on every id.
NextJobId ==
    /\ job_kind = "none"
    /\ \E kind \in JobKinds, id \in SourceIds : GetJobId(kind, id)

SpecJobId == Init /\ [][NextJobId]_vars

\* the variables of get_job_id
idVars == <<job_kind, source_id, job_id>>

\* The id of an update job through get_job_id and back into an UpdateJob,
\* over every snapshot id, update type and timestamp.
NextUpdateId ==
    /\ job_kind = "none"
    /\ \E snapshot_id \in DashFree, update_type \in DashFree, datetime \in DashFree,
          status \in JobStatusCodes, source \in StatusResponses :
            UpdateIdRoundTrip(snapshot_id, update_type, datetime, status, source)

SpecUpdateId == Init /\ [][NextUpdateId]_vars

\* the steps of a call that is waiting for the job or downloading its files
JobStep ==
    \/ \E status \in JobStatusCodes, source \in StatusResponses :
            WaitPoll(status, source) /\ UNCHANGED <<listenerVars, streamVars, idVars>>
    \/ WaitReturn /\ UNCHANGED <<listenerVars, streamVars, idVars>>
    \/ ProcessDownload /\ UNCHANGED <<listenerVars, streamVars, idVars>>
    \/ \E ok \in BOOLEAN : DownloadFile(ok) /\ UNCHANGED <<listenerVars, streamVars, idVars>>
    \/ DownloadDone /\ UNCHANGED <<listenerVars, streamVars, idVars>>

\* One job object of any class, from its construction on, under every
\* operation and every answer of the platform.
NextJob ==
    \/ \E kind \in {"ExplainJob", "AnalyticsJob"} :
            NewJob(kind) /\ UNCHANGED <<listenerVars, streamVars, idVars>>
    \/ \E snapshot_id \in SnapshotIdArguments :
            NewExtractionJob(snapshot_id) /\ UNCHANGED <<listenerVars, streamVars, idVars>>
    \/ \E update_type \in UpdateTypes, snapshot_id \in SnapshotIdArguments,
          update_id \in UpdateIds, status \in JobStatusCodes, source \in StatusResponses :
            NewUpdateJob(update_type, snapshot_id, update_id, status, source)
                /\ UNCHANGED <<listenerVars, streamVars, idVars>>
    \/ \E status \in JobStatusCodes, id \in ResponseIds \cup {<<>>} :
            SubmitJob(status, id) /\ UNCHANGED <<listenerVars, streamVars, idVars>>
    \/ \E status \in JobStatusCodes, source \in StatusResponses :
            GetJobResults(status, source) /\ UNCHANGED <<listenerVars, streamVars, idVars>>
    \/ WaitStart /\ UNCHANGED <<listenerVars, streamVars, idVars>>
    \/ \E status \in JobStatusCodes, id \in ResponseIds \cup {<<>>} :
            ProcessStart(status, id) /\ UNCHANGED <<listenerVars, streamVars, idVars>>
    \/ DownloadJobFiles /\ UNCHANGED <<listenerVars, streamVars, idVars>>
    \/ JobStep

SpecJob == Init /\ [][NextJob]_vars

\* a Snapshot after its construction, no update job yet
InitSnapshot ==
    /\ InitListener
    /\ NoStream
    /\ job_kind = "none"
    /\ source_id = <<>>
    /\ job_id = <<>>
    /\ job = NoJobRecord
    /\ job_pc = "idle"
    /\ job_op = NoJobOp
    /\ retrieval = NoRetrieval
    /\ snapshot_obj \in SnapshotsConstructed

\* One Snapshot and its update job, under every operation on the update job
\* and every answer of the platform.
NextSnapshot ==
    \/ \E status \in JobStatusCodes, id \in ResponseIds \cup {<<>>} :
            SubmitExtractionJob(status, id) /\ UNCHANGED <<listenerVars, streamVars, idVars>>
    \/ \E update_type \in UpdateTypes, status \in JobStatusCodes, id \in ResponseIds \cup {<<>>} :
            SubmitUpdateJob(update_type, status, id)
                /\ UNCHANGED <<listenerVars, streamVars, idVars>>
    \/ \E update_type \in UpdateTypes, status \in JobStatusCodes, id \in ResponseIds \cup {<<>>} :
            ProcessUpdate(update_type, status, id)
                /\ UNCHANGED <<listenerVars, streamVars, idVars>>
    \/ \E status \in JobStatusCodes, source \in StatusResponses :
            GetUpdateJobResults(status, source) /\ UNCHANGED <<listenerVars, streamVars, idVars>>
    \/ DownloadUpdateFiles /\ UNCHANGED <<listenerVars, streamVars, idVars>>
    \/ \E status \in JobStatusCodes, source \in StatusResponses :
            WaitPoll(status, source) /\ UNCHANGED <<listenerVars, streamVars, idVars>>
    \/ ProcessDownload /\ UNCHANGED <<listenerVars, streamVars, idVars>>
    \/ \E ok \in BOOLEAN : DownloadFile(ok) /\ UNCHANGED <<listenerVars, streamVars, idVars>>
    \/ DownloadDone /\ UNCHANGED <<listenerVars, streamVars, idVars>>

SpecSnapshot == InitSnapshot /\ [][NextSnapshot]_vars

\* ---------------------------------------------------------------- properties
Threads == 1..MaxCalls

\* C1: every pull request asks the channel for at most
\* min(batch_size, maximum_messages - messages processed so far) messages.
\* (B is the batch_size the request was built from.)
C1_PullAsksAtMostRemaining ==
    pulls > 0 =>
        last_pull.max_messages
            <= Min(pubsub_request.max_messages, maximum_messages - last_pull.processed)

\* C2: a message is acknowledged only after its own callback has returned, each
\* acknowledge request carries one ack id, and a message whose callback did not
\* complete, or that is still waiting in the batch, is never acknowledged.
C2_AckOnlyAfterCallback ==
    /\ acknowledged \subseteq called_back
    /\ Cardinality(last_ack_ids) <= 1
    /\ failed_message \notin acknowledged
    /\ \A i \in 1..Len(received_messages) : received_messages[i] \notin acknowledged

\* C2 witness: a callback raised on a delivered message after earlier messages
\* of the call were acknowledged; the failed one is not acknowledged.
C2_Witness ==
    /\ pc = "raised"
    /\ outcome = "callback raised"
    /\ failed_message \in delivered
    /\ acknowledged # {}
    /\ failed_message \notin acknowledged

\* C3: when listen returns because maximum_messages was reached, with no
\* transport error during the call, every message the channel delivered has
\* been passed to the callback and acknowledged.
C3_AllDeliveredProcessed ==
    (pc = "returned" /\ outcome = "maximum reached" /\ errors = 0) =>
        (called_back = delivered /\ acknowledged = delivered)

\* C3 witness: listen returned at its cap after the channel delivered more
\* messages than the cap, all of them processed.
C3_Witness ==
    /\ pc = "returned"
    /\ outcome = "maximum reached"
    /\ errors = 0
    /\ Cardinality(delivered) > maximum_messages
    /\ acknowledged = delivered

\* C4: once a callback of the call has returned a falsy value, listen is at
\* the acknowledgment of that message or has ended, with as many messages
\* counted and acknowledged as callbacks were made: no further pull or callback.
C4_FalsyCallbackStops ==
    (called_back # {} /\ ~callback_result) =>
        /\ pc \in {"ack", "except", "returned", "raised"}
        /\ pc = "returned" =>
                /\ outcome = "callback stop"
                /\ messages_count = Cardinality(called_back)
                /\ acknowledged = called_back

\* C5: a transient transport error does not end listen: the handler sleeps
\* the fixed delay, re-acquires the channel handle and goes back to the loop
\* with messages_count unchanged and below the cap, and every step from the
\* loop below the cap is a pull.  (A step of the caller is one that changes
\* pumpVars; the threads and the dispatcher may step in between.)
C5_TransientRetried ==
    /\ [][(pc = "except" /\ error = "GoogleAPICallError" /\ pumpVars' # pumpVars) =>
            /\ pc' = "loop"
            /\ outcome' = "none"
            /\ slept' = slept + RetryDelay
            /\ clients' = clients + 1
            /\ messages_count' = messages_count
            /\ messages_count' < maximum_messages']_vars
    /\ [][(pc = "loop" /\ messages_count < maximum_messages /\ pumpVars' # pumpVars) =>
            pulls' = pulls + 1]_vars

\* C5 witness: after a transient error raised once a message had been
\* processed, the call slept once, holds its second handle and pulled again.
C5_Witness ==
    /\ errors = 1
    /\ slept = RetryDelay
    /\ clients = 2
    /\ pulls = 2
    /\ last_pull.processed >= 1
    /\ pc = "callback"

\* C6: a NotFound error is re-raised at once: the handler leaves listen with
\* no sleep, no channel re-acquisition, no pull, callback or acknowledge, and
\* nothing of the kind happens afterwards in that call.
C6_NotFoundFatal ==
    /\ [][(pc = "except" /\ error = "NotFound" /\ pumpVars' # pumpVars) =>
            /\ pc' = "raised"
            /\ outcome' = "NotFound"
            /\ UNCHANGED <<slept, clients, pulls, called_back, acknowledged,
                           last_ack_ids, messages_count, is_consuming>>]_vars
    /\ [][(pc = "raised" /\ calls' = calls) =>
            UNCHANGED <<pc, slept, clients, pulls, called_back, acknowledged,
                        last_ack_ids, messages_count>>]_vars

\* C6 witness: listen raised NotFound after it had processed a message,
\* without having slept or re-acquired the handle.
C6_Witness ==
    /\ pc = "raised"
    /\ outcome = "NotFound"
    /\ acknowledged # {}
    /\ slept = 0
    /\ clients = 1

\* C7: listen called without maximum_messages raises the caller error before
\* any network call: no channel handle, no credentials, no pull, no thread.
C7_UndefinedMaximumFailsFirst ==
    /\ [][(calls' = calls + 1 /\ mode' = "listen" /\ maximum_messages' \in {None, 0}) =>
            /\ pc' = "raised"
            /\ outcome' = "ValueError"
            /\ UNCHANGED <<clients, credentials, pulls, check_threads, subscriptions,
                           delivered, is_consuming>>]_vars
    /\ []((calls = 1 /\ outcome = "ValueError") =>
            /\ clients = 0
            /\ credentials = 0
            /\ pulls = 0
            /\ \A t \in Threads : check_threads[t].pc = "none")

\* C7 witness: the first call on the Listener omitted maximum_messages and
\* raised, nothing acquired or started.
C7_Witness ==
    /\ calls = 1
    /\ pc = "raised"
    /\ outcome = "ValueError"
    /\ maximum_messages = None
    /\ clients = 0
    /\ \A t \in Threads : check_threads[t].pc = "none"

\* C8: a step of the watchdog (a thread's record changes and no call starts)
\* never writes is_consuming nor any state of the pump or of the dispatcher.
C8_WatchdogLeavesPumpAlone ==
    [][(check_threads' # check_threads /\ calls' = calls) =>
            UNCHANGED <<is_consuming, pumpVars, pushVars>>]_vars

\* C8 witness: the watchdog holds the account maximum (limit seen exceeded)
\* and still runs while the pump is acknowledging a further message.
C8_Witness ==
    /\ \E t \in Threads :
            /\ check_threads[t].pc = "running"
            /\ check_threads[t].limit_msg # None
    /\ is_consuming
    /\ pc = "ack"
    /\ acknowledged # {}

\* C9: a watchdog ends normally (final report printed) only once is_consuming
\* is false, and one started by listen_async never ends normally.
C9_PushWatchdogNeverEnds ==
    \A t \in Threads :
        /\ check_threads[t].pc = "done" => ~is_consuming
        /\ check_threads[t].caller = "listen_async" => check_threads[t].pc # "done"

\* C10: an unexpected status code from the stream request or from the account
\* request makes the watchdog fail in that iteration: no request after it (the
\* account request is not issued after a bad stream answer, a failed thread
\* never steps again), no final report, is_consuming as it was.
C10_UnexpectedStatusFatal ==
    /\ [](\A t \in Threads :
            (\/ check_threads[t].status_code \notin {0, HTTP_OK}
             \/ check_threads[t].limit_status_code \notin {0, HTTP_OK}) =>
                /\ check_threads[t].pc = "failed"
                /\ check_threads[t].report = "none"
                /\ check_threads[t].status_code # HTTP_OK =>
                        check_threads[t].limit_status_code = 0)
    /\ [][\A t \in Threads :
            /\ check_threads[t].pc = "failed" => check_threads'[t] = check_threads[t]
            /\ (check_threads[t].pc # "failed" /\ check_threads'[t].pc = "failed") =>
                    is_consuming' = is_consuming]_vars

\* C10 witness: the account request failed after the limit was seen exceeded,
\* the thread is dead without a report and consumption goes on.
C10_Witness ==
    /\ \E t \in Threads :
            /\ check_threads[t].pc = "failed"
            /\ check_threads[t].status_code = HTTP_OK
            /\ check_threads[t].limit_status_code \in StatusCodes \ {HTTP_OK}
            /\ check_threads[t].report = "none"
    /\ is_consuming
    /\ pc = "callback"

\* C11 as stated: listen_async returns once the callback is registered, without
\* waiting for a message, and every message the channel dispatches causes
\* exactly one invocation of the callback and exactly one acknowledgment.
C11_EachDispatchCallsAndAcksOnce ==
    [][/\ (mode' = "listen_async" /\ calls' = calls + 1) =>
            /\ pc' = "returned"
            /\ subscriptions' = subscriptions + 1
            /\ push_received' = push_received
       /\ (push_received' = push_received + 1) =>
            /\ push_called' = push_called + 1
            /\ push_acked' = push_acked + 1]_vars

\* C11 amended: listen_async returns once the callback is registered, without
\* waiting for a message; every message the channel dispatches causes exactly
\* one invocation of the callback, and exactly one acknowledgment when that
\* invocation returns, none when it raises.
C11_DispatchAcksAfterCallbackReturns ==
    [][/\ (mode' = "listen_async" /\ calls' = calls + 1) =>
            /\ pc' = "returned"
            /\ subscriptions' = subscriptions + 1
            /\ push_received' = push_received
       /\ (push_received' = push_received + 1) =>
            /\ push_called' = push_called + 1
            /\ push_acked' = push_acked + (IF push_raised' = push_raised THEN 1 ELSE 0)
            /\ push_raised' \in {push_raised, push_raised + 1}]_vars

\* a registered callback has been dispatched a message, returned, and the
\* message was acknowledged
C11_Witness ==
    /\ mode = "listen_async"
    /\ pc = "returned"
    /\ push_received > 0
    /\ push_called = push_received
    /\ push_raised = 0
    /\ push_acked = push_received

\* C12: delete_subscription(id) with an id that is not a key of the registry
\* fails with the invalid-subscription error, issues no delete request and
\* leaves the registry as it was.
C12_AbsentIdRejected ==
    [][(last_op'.op = "delete_subscription" /\ last_op'.id \notin DOMAIN subscriptions_dict) =>
            /\ last_op'.outcome = "INVALID_SUBSCRIPTION_ID_ERROR"
            /\ last_op'.requests = 0
            /\ subscriptions_dict' = subscriptions_dict]_vars

\* delete_subscription was refused for an id absent from a registry that
\* holds another subscription
C12_Witness ==
    /\ last_op.op = "delete_subscription"
    /\ last_op.outcome = "INVALID_SUBSCRIPTION_ID_ERROR"
    /\ last_op.id \notin DOMAIN subscriptions_dict
    /\ DOMAIN subscriptions_dict # {}

\* C13: delete_subscription(id) with an id that is a key of the registry issues
\* the delete request; the entry is removed exactly when the platform answers
\* 200; on any other answer the call raises and the entry stays; every other
\* entry is kept as it was.
C13_RemovedOnlyWhenConfirmed ==
    [][(last_op'.op = "delete_subscription" /\ last_op'.id \in DOMAIN subscriptions_dict) =>
            /\ last_op'.requests = 1
            /\ \A k \in DOMAIN subscriptions_dict \ {last_op'.id} :
                    k \in DOMAIN subscriptions_dict' /\ subscriptions_dict'[k] = subscriptions_dict[k]
            /\ DOMAIN subscriptions_dict' \subseteq DOMAIN subscriptions_dict
            /\ IF last_op'.status = HTTP_OK
               THEN /\ last_op'.outcome = "ok"
                    /\ last_op'.id \notin DOMAIN subscriptions_dict'
               ELSE /\ last_op'.outcome = "RuntimeError: Unable to delete subscription"
                    /\ subscriptions_dict' = subscriptions_dict]_vars

\* a subscription was deleted on a 200 while another one stayed in the registry
C13_Witness ==
    /\ last_op.op = "delete_subscription"
    /\ last_op.status = HTTP_OK
    /\ last_op.outcome = "ok"
    /\ last_op.id \notin DOMAIN subscriptions_dict
    /\ DOMAIN subscriptions_dict # {}

\* C14: create_subscription, when it succeeds, inserts exactly one new entry,
\* keyed by the id the platform assigned and bound to a listener; when anything
\* fails it raises the one creation error and the registry is as it was.
C14_CreateSubscriptionAllOrNothing ==
    [][(last_op'.op = "create_subscription") =>
            IF last_op'.outcome = "ok"
            THEN /\ last_op'.status = HTTP_CREATED
                 /\ last_op'.id = next_sub
                 /\ last_op'.id \notin DOMAIN subscriptions_dict
                 /\ DOMAIN subscriptions_dict' = DOMAIN subscriptions_dict \cup {last_op'.id}
                 /\ \A k \in DOMAIN subscriptions_dict : subscriptions_dict'[k] = subscriptions_dict[k]
                 /\ subscriptions_dict'[last_op'.id].id = last_op'.id
                 /\ subscriptions_dict'[last_op'.id].listener = last_op'.id
            ELSE /\ last_op'.outcome = "RuntimeError: creating the subscription"
                 /\ subscriptions_dict' = subscriptions_dict]_vars

\* create_subscription succeeded on a stream that already had a subscription
C14_Witness ==
    /\ last_op.op = "create_subscription"
    /\ last_op.outcome = "ok"
    /\ last_op.id \in DOMAIN subscriptions_dict
    /\ subscriptions_dict[last_op.id].listener = last_op.id
    /\ DOMAIN subscriptions_dict # {last_op.id}

\* C15: create on a Stream with neither a snapshot_id nor a query fails without
\* issuing a request and without changing the stream_id or the registry; a
\* create that goes ahead issues one creation request, to the snapshot endpoint
\* when a snapshot_id is set and to the query endpoint otherwise, never both.
C15_CreateNeedsSnapshotOrQuery ==
    [][(last_op'.op = "create") =>
            LET st == streams[last_op'.stream] IN
            /\ (st.snapshot_id = None /\ st.query = "") =>
                    /\ last_op'.outcome = "ValueError"
                    /\ last_op'.requests = 0
                    /\ streams' = streams
                    /\ subscriptions_dict' = subscriptions_dict
            /\ (st.snapshot_id # None \/ st.query # "") =>
                    /\ last_op'.requests = 1
                    /\ last_op'.endpoint =
                            IF st.snapshot_id # None THEN "snapshots/{id}/streams" ELSE "streams"]_vars

\* create was refused on a Stream with neither a snapshot_id nor a query
C15_Witness ==
    /\ last_op.op = "create"
    /\ last_op.outcome = "ValueError"
    /\ last_op.requests = 0
    /\ streams[last_op.stream].snapshot_id = None
    /\ streams[last_op.stream].query = ""

\* C16: a creation request answered with a status other than 201 makes create
\* fail with the unexpected-response error and leaves the stream_id and the
\* registry as they were.
C16_Non201LeavesStreamUnchanged ==
    [][(last_op'.op = "create" /\ last_op'.requests = 1 /\ last_op'.status # HTTP_CREATED) =>
            /\ last_op'.outcome = "UNEXPECTED_HTTP_ERROR"
            /\ streams' = streams
            /\ subscriptions_dict' = subscriptions_dict]_vars

\* create failed on a status other than 201, on a Stream that had been created
\* before and holds subscriptions
C16_Witness ==
    /\ last_op.op = "create"
    /\ last_op.requests = 1
    /\ last_op.status \in StreamStatusCodes \ {HTTP_CREATED}
    /\ last_op.outcome = "UNEXPECTED_HTTP_ERROR"
    /\ streams[last_op.stream].stream_id # None
    /\ DOMAIN subscriptions_dict # {}

\* C17: after a create that succeeded the stream_id is the id of the response
\* and the registry holds, for every subscription the response reported, an
\* entry keyed by its id, with the new stream_id and bound to a listener.
C17_CreatedStreamLoadsReported ==
    (last_op.op = "create" /\ last_op.outcome = "ok") =>
        /\ last_op.status = HTTP_CREATED
        /\ ~Falsy(last_op.id)
        /\ streams[last_op.stream].stream_id = last_op.id
        /\ \A i \in 1..Len(last_op.reported) :
                /\ last_op.reported[i] \in DOMAIN subscriptions_dict
                /\ subscriptions_dict[last_op.reported[i]].id = last_op.reported[i]
                /\ subscriptions_dict[last_op.reported[i]].stream_id = last_op.id
                /\ subscriptions_dict[last_op.reported[i]].listener = last_op.reported[i]

\* create succeeded on a response reporting two subscriptions
C17_Witness ==
    /\ last_op.op = "create"
    /\ last_op.outcome = "ok"
    /\ Len(last_op.reported) = 2
    /\ streams[last_op.stream].stream_id = last_op.id

\* C18: get_info and delete on a Stream without a stream_id fail with the
\* undefined-stream-id error before any request; with a stream_id, an answer
\* that is neither 200 nor 404 makes them raise the error of an unexpected
\* response.
C18_StreamIdRequiredAndUnexpectedRaises ==
    (last_op.op \in {"get_info", "delete"}) =>
        /\ Falsy(streams[last_op.stream].stream_id) =>
                last_op.outcome = "UNDEFINED_STREAM_ID_ERROR" /\ last_op.requests = 0
        /\ (~Falsy(streams[last_op.stream].stream_id)) =>
                /\ last_op.requests = 1
                /\ last_op.status \notin {HTTP_OK, HTTP_NOT_FOUND} =>
                        last_op.outcome = IF last_op.op = "get_info"
                                          THEN "RuntimeError: response.text"
                                          ELSE "UNEXPECTED_HTTP_ERROR"

\* delete on a created Stream was answered 500 and raised
C18_Witness ==
    /\ last_op.op = "delete"
    /\ ~Falsy(streams[last_op.stream].stream_id)
    /\ last_op.status = 500
    /\ last_op.outcome = "UNEXPECTED_HTTP_ERROR"

\* C19: Stream.delete answered 404 raises the 'stream does not exist' error,
\* and raises the generic unexpected-HTTP error only on a status other than
\* 200 and 404.
C19_DeleteTells404Apart ==
    (last_op.op = "delete" /\ last_op.requests = 1) =>
        /\ last_op.status = HTTP_NOT_FOUND =>
                last_op.outcome = "RuntimeError: The Stream does not exist"
        /\ last_op.outcome = "UNEXPECTED_HTTP_ERROR" =>
                last_op.status \notin {HTTP_OK, HTTP_NOT_FOUND}

\* C20: get_job_id returns the id of the response unchanged for an explain and
\* an analytics job, the last dash-delimited segment for an extraction job, and
\* the last three segments, joined again with dashes, for an update job.
C20_JobIdFromSegments ==
    LET n == Len(source_id)
        m == Len(job_id)
        Dashes(str) == Cardinality({i \in 1..Len(str) : str[i] = "-"})
        IsSuffix == m <= n /\ job_id = SubSeq(source_id, n - m + 1, n)
        AfterDash == m = n \/ source_id[n - m] = "-"
    IN
    /\ job_kind \in {"ExplainJob", "AnalyticsJob"} => job_id = source_id
    /\ job_kind = "ExtractionJob" =>
            /\ IsSuffix
            /\ Dashes(job_id) = 0
            /\ Dashes(source_id) > 0 => m < n /\ source_id[n - m] = "-"
    /\ job_kind = "UpdateJob" =>
            /\ IsSuffix
            /\ AfterDash
            /\ Dashes(job_id) = Min(2, Dashes(source_id))
            /\ Dashes(source_id) <= 2 => job_id = source_id

\* an update job was given an id of four segments and kept the last three
C20_Witness ==
    /\ job_kind = "UpdateJob"
    /\ source_id = <<"a", "-", "b", "-", "a", "-", "b">>
    /\ job_id = <<"b", "-", "a", "-", "b">>

\* C30: one listen call never passes to the callback, nor acknowledges, more
\* messages than maximum_messages, whatever the channel delivers.
C30_NeverPastMaximum ==
    (mode = "listen" /\ ~Falsy(maximum_messages)) =>
        /\ Cardinality(called_back) <= maximum_messages
        /\ Cardinality(acknowledged) <= maximum_messages

\* C21 as stated: constructing an UpdateJob fails, with no request issued, when
\* update_id comes with update_type or snapshot_id, when none of the three is
\* given and when only one of update_type and snapshot_id is given; it succeeds
\* exactly when update_id alone, or update_type and snapshot_id without
\* update_id, are given.
C21_UpdateJobArguments ==
    (job_op.op = "UpdateJob") =>
        LET update_type == job_op.arguments[1]
            snapshot_id == job_op.arguments[2]
            update_id == job_op.arguments[3]
            valid == \/ update_id # <<>> /\ update_type = <<>> /\ snapshot_id = <<>>
                     \/ update_id = <<>> /\ update_type # <<>> /\ snapshot_id # <<>>
        IN /\ ~valid => job_op.outcome # "ok" /\ job_op.requests = 0
           /\ valid => job_op.outcome = "ok"

\* C21 amended: the construction fails, with no request issued, for exactly
\* those argument combinations; with update_type and snapshot_id and no
\* update_id it succeeds without a request; with update_id alone it fails on an
\* update_id without a second dash-delimited segment, and otherwise issues one
\* status request and succeeds exactly when that request is answered 200.
C21_UpdateJobArgumentsThenResults ==
    (job_op.op = "UpdateJob") =>
        LET update_type == job_op.arguments[1]
            snapshot_id == job_op.arguments[2]
            update_id == job_op.arguments[3]
            alone == update_id # <<>> /\ update_type = <<>> /\ snapshot_id = <<>>
            both == update_id = <<>> /\ update_type # <<>> /\ snapshot_id # <<>>
            dashes == Cardinality({i \in 1..Len(update_id) : update_id[i] = "-"})
        IN /\ ~(alone \/ both) => job_op.outcome # "ok" /\ job_op.requests = 0
           /\ both => job_op.outcome = "ok" /\ job_op.requests = 0
           /\ (alone /\ dashes = 0) => job_op.outcome = "IndexError" /\ job_op.requests = 0
           /\ (alone /\ dashes > 0) =>
                /\ job_op.requests = 1
                /\ job_op.outcome = "ok" <=> job_op.status = HTTP_OK

\* an UpdateJob was built from an update_id alone, its results requested
C21_Witness ==
    /\ job_op.op = "UpdateJob"
    /\ job_op.arguments = << <<>>, <<>>, <<"b", "-", "a", "-", "b">> >>
    /\ job_op.outcome = "ok"
    /\ job_op.requests = 1
    /\ job.job_id = <<"b", "-", "a", "-", "b">>
    /\ job.snapshot_id = <<"b">>
    /\ job.update_type = <<"a">>

C23_PollBeforeSubmit ==
    [][(job_op'.op = "get_job_results" /\ job.link = <<>>) =>
          /\ job_op'.outcome = "RuntimeError: job not submitted"
          /\ job_op'.requests = 0
          /\ job' = job]_vars

\* get_job_results has raised on a job that has no link
C23_Witness ==
    /\ job.kind # "none"
    /\ job.link = <<>>
    /\ job_op.op = "get_job_results"
    /\ job_op.outcome = "RuntimeError: job not submitted"

\* C24: in every state of a job, under any sequence of submit_job and
\* get_job_results calls, the data of the job (document_volume, data, files
\* and file_format) is populated only if its status is Done.
C24_PopulatedOnlyWhenDone ==
    Populated(job) => job.job_state = "Done"

\* C25: the waiting loop polls until the status is terminal and returns at
\* the first terminal status: from a terminal status it takes no further poll
\* (the job is left as it is and the loop ends), and it ends without an
\* exception only from a terminal status.
C25_WaitStopsAtFirstTerminal ==
    [][/\ (job_pc = "waiting" /\ job.job_state \in TerminalStates)
              => (job' = job /\ job_pc' # "waiting")
       /\ (job_pc = "waiting" /\ job_pc' # "waiting" /\ job_op'.outcome \in {"ok", "running"})
              => (job.job_state \in TerminalStates /\ job' = job)]_vars

\* the loop has returned on a job that is Done
C25_Witness ==
    /\ job_op.op = "wait_until_done"
    /\ job_op.outcome = "ok"
    /\ job_pc = "idle"
    /\ job.job_state = "Done"

\* C26: process_job starts the download of the files only for an
\* ExtractionJob or an UpdateJob, and only once the job has reached Done:
\* never for a job that ended Failed, never for an ExplainJob or an
\* AnalyticsJob.
C26_DownloadOnlyAfterDone ==
    [][(job_op'.op = "process_job" /\ job_pc # "downloading" /\ job_pc' = "downloading")
          => (job.kind \in DownloadingKinds /\ job.job_state = "Done")]_vars

\* C27: once the job_id of a job is set, no operation on the job changes it.
C27_JobIdSetOnce ==
    [][job.job_id # <<>> => job'.job_id = job.job_id]_vars

C29_UpdateJobNotSet ==
    [][/\ (job_pc = "idle" /\ job_op'.op \in {"get_update_job_results", "download_update_files"})
              => (job_op'.outcome = "RuntimeError: Update job has not been set"
                      <=> job.kind = "none")
       /\ (snapshot_obj'.last_update_job = "None" <=> job'.kind = "none")
       /\ (job.kind # "none" => job'.kind # "none")]_vars

\* get_update_job_results has raised on a Snapshot that has an extraction
\* job and no update job
C29_Witness ==
    /\ snapshot_obj.last_update_job = "None"
    /\ snapshot_obj.last_extraction_job = "ExtractionJob"
    /\ job_op.op = "get_update_job_results"
    /\ job_op.outcome = "RuntimeError: Update job has not been set"

\* C31: whenever a listen call has ended because maximum_messages was
\* reached, because the callback signalled stop, or on the fatal NotFound,
\* is_consuming is false, so that the watchdog the call started leaves its loop.
C31_ConsumingFalseAfterListen ==
    (mode = "listen" /\ pc \in {"returned", "raised"}
        /\ outcome \in {"maximum reached", "callback stop", "NotFound"})
        => ~is_consuming

\* C35: on one Listener, under any sequence of listen and listen_async
\* calls, a pull loop never runs while a push callback is registered, and at
\* most one watchdog thread is alive.
C35_OneModeOneWatchdog ==
    /\ ~(subscriptions > 0 /\ mode = "listen" /\ pc \in {"loop", "callback", "ack", "except"})
    /\ Cardinality({t \in Threads : check_threads[t].pc = "running"}) <= 1

\* C37: within one pulled batch the messages go to the callback and are then
\* acknowledged in the order of delivery: what remains of the batch is in
\* delivery order and ends with the message delivered last, the messages of
\* the batch before the one the callback is given have all been passed to the
\* callback and acknowledged, and the one that is being acknowledged has
\* been passed to the callback and is not acknowledged yet.
C37_BatchInDeliveryOrder ==
    pc \in {"callback", "ack"} =>
        LET m == Head(received_messages)
            done == messages_count - last_pull.processed
        IN /\ \A i \in 1..Len(received_messages) : received_messages[i] = m + i - 1
           /\ m + Len(received_messages) - 1 = Cardinality(delivered)
           /\ \A j \in 1..done : (m - j) \in called_back /\ (m - j) \in acknowledged
           /\ m \notin acknowledged
           /\ (pc = "callback") => m \notin called_back
           /\ (pc = "ack") => m \in called_back

\* the callback is about to get the second message of a batch, after the
\* first was acknowledged
C37_Witness ==
    /\ pc = "callback"
    /\ messages_count - last_pull.processed = 1
    /\ Head(received_messages) - 1 \in acknowledged

\* C38: a watchdog prints the exceeded notice only in its final report, and
\* it prints it if and only if some iteration saw the limit exceeded and
\* obtained the account maximum; once obtained the figure is never unset.
C38_NoticeIffExceededSeen ==
    /\ [](\A t \in Threads :
            /\ check_threads[t].report = "exceeded notice" => check_threads[t].pc = "done"
            /\ check_threads[t].pc = "done" =>
                    (check_threads[t].report = "exceeded notice"
                        <=> check_threads[t].limit_msg # None))
    /\ [][\A t \in Threads :
            (check_threads[t].limit_msg # None /\ check_threads'[t].pc # "none"
                /\ check_threads[t].caller = check_threads'[t].caller)
                => check_threads'[t].limit_msg # None]_vars

\* C40: a listen call with the default callback returns only once
\* maximum_messages messages were processed and acknowledged.
C40_DefaultCallbackConsumesAll ==
    (mode = "listen" /\ callback = "default_callback" /\ pc = "returned")
        => (messages_count >= maximum_messages
            /\ Cardinality(acknowledged) >= maximum_messages)

\* C32: every Stream object has a registry of its own: the subscriptions a
\* Stream object sees all carry the stream_id of that Stream object, whatever
\* was created, loaded or deleted through another one.
C32_RegistryPerStream ==
    \A s \in StreamObjects : \A id \in DOMAIN subscriptions_dict :
        subscriptions_dict[id].stream_id = streams[s].stream_id

\* C33: after any sequence of create, set_all_subscriptions,
\* create_subscription and delete_subscription, every entry of the registry
\* is keyed by the non-empty id of its subscription and has a Listener built
\* with that id.
C33_EntriesKeyedAndBound ==
    \A id \in DOMAIN subscriptions_dict :
        /\ ~Falsy(id)
        /\ subscriptions_dict[id].id = id
        /\ subscriptions_dict[id].listener = id

\* the registry holds two entries after a response that also reported a
\* subscription without an id
C33_Witness ==
    /\ Cardinality(DOMAIN subscriptions_dict) = 2
    /\ last_op.outcome = "UNDEFINED_SUBSCRIPTION_ERROR"

\* C34: a Listener is bound to a Subscription only once its id is known:
\* create_listener on a Subscription without an id raises the
\* undefined-subscription error and leaves it without a listener it did not
\* have; consuming on a Subscription without a listener raises 'uninitialized
\* listener'; the Subscription holds no listener or one, and a listener it
\* holds was built with an id.
C34_ListenerOnlyWithId ==
    /\ [](/\ subscription.listener = None \/ ~Falsy(subscription.listener)
          /\ (last_op.op \in {"consume_messages", "consume_async_messages"}
                /\ subscription.listener = None)
                => last_op.outcome = "RuntimeError: uninitialized listener")
    /\ [][/\ (last_op'.op = "create_listener" /\ Falsy(subscription.id))
                => (/\ last_op'.outcome \in {"UNDEFINED_SUBSCRIPTION_ERROR",
                                             "RuntimeError: user is not a StreamUser instance"}
                    /\ subscription' = subscription)
          /\ subscription'.listener # subscription.listener
                => (/\ last_op'.op = "create_listener"
                    /\ ~Falsy(subscription.id)
                    /\ subscription'.listener = subscription.id)]_vars

\* create_listener was refused on a Subscription without an id, which still
\* has no listener
C34_Witness ==
    /\ last_op.op = "create_listener"
    /\ last_op.outcome = "UNDEFINED_SUBSCRIPTION_ERROR"
    /\ Falsy(subscription.id)
    /\ subscription.listener = None

\* C39: update ids round-trip. For a snapshot id S, an update type T and a
\* timestamp D without dashes, and any key K without dashes, get_job_id on
\* the response id 'dj-synhub-extraction-K-S-T-D' gives 'S-T-D' and the link
\* built from K and 'S-T-D' ends in the response id; an UpdateJob built from
\* update_id 'S-T-D' has snapshot_id S, update_type T, job_id 'S-T-D' and a
\* link that ends in the response id of its user's key.
C39_UpdateIdRoundTrip ==
    (job_kind = "UpdateJob" /\ job_op.op = "UpdateJob") =>
        LET S == job_op.arguments[1]
            T == job_op.arguments[2]
            D == job_op.arguments[3]
            update_id == S \o <<"-">> \o T \o <<"-">> \o D
            EndsWith(str, tail) ==
                /\ Len(str) >= Len(tail)
                /\ SubSeq(str, Len(str) - Len(tail) + 1, Len(str)) = tail
        IN /\ source_id = ResponseIdOf(ApiKey, S, T, D)
           /\ job_id = update_id
           /\ \A K \in DashFree :
                /\ UpdateGetJobId(ResponseIdOf(K, S, T, D)) = update_id
                /\ EndsWith(LinkWithKey(K, update_id), ResponseIdOf(K, S, T, D))
           /\ job_op.outcome = "ok" =>
                /\ job.kind = "UpdateJob"
                /\ job.job_id = update_id
                /\ job.snapshot_id = S
                /\ job.update_type = T
                /\ EndsWith(job.link, source_id)
           /\ job_op.outcome # "ok" => job.kind = "none"

\* an UpdateJob was built from the id extracted for a two-character snapshot
\* id and a one-character update type
C39_Witness ==
    /\ job_kind = "UpdateJob"
    /\ job_op.outcome = "ok"
    /\ job.kind = "UpdateJob"
    /\ job.snapshot_id = <<"a", "b">>
    /\ job.update_type = <<"b">>
    /\ job_id = <<"a", "b", "-", "b", "-", "a">>

\* the call of listen is over: it returned or it raised
ListenEnded == pc \in {"returned", "raised"}

\* the call is at the head of its loop and the loop condition holds
ListenPulling == pc = "loop" /\ LoopContinues(maximum_messages, messages_count)

\* C36 as stated: once the channel has delivered maximum_messages messages to
\* a call of listen that meets only finitely many transient errors, the call
\* ends
C36_ReturnsOnceDelivered ==
    <>[](pc # "except") =>
        ((mode = "listen" /\ Cardinality(delivered) >= maximum_messages) ~> ListenEnded)

\* C36: a call of listen ends provided it meets only finitely many transient
\* errors and the channel never leaves it pulling for ever, that is, goes on
\* delivering until the count reaches maximum_messages; the handler of a
\* transient error always goes back to the loop with the count as it was (no
\* retry limit), and from the head of the loop, while the count is below
\* maximum_messages, the call never ends, whatever the pulls answered so far
\* (no idle timeout): it ends only from the loop condition, a falsy callback
\* result, a callback that raises, or NotFound
C36_ReturnsWhileChannelDelivers ==
    /\ (<>[](pc # "except") /\ []<>(~ListenPulling)) => (mode = "listen" ~> ListenEnded)
    /\ [][/\ (pc = "except" /\ ~IsNotFound(error)) =>
                (pc' = "loop" /\ messages_count' = messages_count)
          /\ ListenPulling => pc' \in {"loop", "callback", "except"}
          /\ (~ListenEnded /\ ListenEnded') =>
                outcome' \in {"maximum reached", "callback stop", "callback raised",
                              "NotFound"}
          /\ outcome' = "maximum reached" => messages_count' >= maximum_messages]_vars

\* more pulls and more transient errors than the record counts, more messages
\* delivered than maximum_messages, and the call is still pulling
C36_Witness ==
    /\ mode = "listen"
    /\ ListenPulling
    /\ pulls > MaxPulls
    /\ errors = MaxErrors
    /\ Cardinality(delivered) >= maximum_messages
    /\ last_pull.processed = messages_count

====
